---- MODULE Spec2Model ----
(***************************************************************************)
(* A model of the merks Merkle-tree library: the exported class of        *)
(* src/src/index.ts with its helpers in src/src/utils, and the class of    *)
(* src/src/core/MerkleTree.ts, whose nodes point to their parents.         *)
(*                                                                         *)
(* Buffers are sequences of bytes (naturals below 256).  JavaScript's      *)
(* `undefined` is the sequence <<-1>>, which is no buffer.  A JSON text is *)
(* represented by the value it denotes: a string is a sequence of          *)
(* one-character strings, an array is a sequence of values.                *)
(*                                                                         *)
(* The hash function of a tree is one of four deterministic functions:     *)
(*   "none"    the identity, createHashFunction("none");                   *)
(*   "sha256"  the digest branch of createHashFunction, abstracted to a    *)
(*             collision-free digest: different data give different        *)
(*             digests, as they do in every run of the program;            *)
(*   "custom"  a caller-supplied options.hashFunction that prepends the    *)
(*             text "custom" to its input (injective, variable length);    *)
(*   "limited" a caller-supplied options.hashFunction that throws an Error *)
(*             for inputs of length 0 or more than 2 and returns the       *)
(*             other inputs as they are.                                   *)
(***************************************************************************)
EXTENDS Integers, Sequences, FiniteSets, TLC

VARIABLES
  input,      \* the leaf list given to the constructor, held by the caller
  hashFn,     \* this.hashFn, one of HashKinds
  status,     \* "none" before construction, then "built" or "failed"
  _leaves,    \* this._leaves (this.leaves of a tree of core/MerkleTree.ts)
  _tree,      \* this._tree (this.tree of a tree of core/MerkleTree.ts)
  hashCalls,  \* calls of the hash function made by the call that constructs
              \* the tree, whether it returns or throws
  ret,        \* outcome of the latest public call
  args,       \* arguments of a static call that needs no tree
  sortPairs,  \* this.sortPairs of a tree of core/MerkleTree.ts
  nodes,      \* the MerkleNode objects of a tree of core/MerkleTree.ts
  buffers     \* for each leaf of input, 0 when it is a string, else the name
              \* of its Buffer object: leaves of one name are one object

vars == <<input, hashFn, status, _leaves, _tree, hashCalls, ret, args,
          sortPairs, nodes, buffers>>

(***************************************************************************)
(* Bounds of the model.                                                    *)
(***************************************************************************)
MaxLeaves == 5
MaxByte == 0
MaxProofLen == 2
MaxJsonLen == 2

(***************************************************************************)
(* Values.                                                                 *)
(***************************************************************************)
Undefined == <<-1>>

Bytes == 0..MaxByte

\* raw leaf inputs: the empty string and the one-byte strings
LeafData == {<<>>} \cup {<<b>> : b \in Bytes}

RECURSIVE SeqsUpTo(_, _)
SeqsUpTo(S, n) ==
  IF n = 0 THEN {<<>>}
  ELSE LET shorter == SeqsUpTo(S, n - 1)
       IN shorter \cup {Append(s, x) : s \in {t \in shorter : Len(t) = n - 1}, x \in S}

LeafLists == SeqsUpTo(LeafData, MaxLeaves)

\* the hash functions that return for every input
TotalHashKinds == {"none", "sha256", "custom"}

HashKinds == TotalHashKinds \cup {"limited"}

\* a value that is not a Buffer: a string such as "invalid"
NotABuffer == <<-2>>

\* Buffer.isBuffer(x)
IsBuffer(x) == \A k \in 1..Len(x) : x[k] \in 0..255

\* the outcome of a call: a returned value or a thrown error
Ok(val) == [threw |-> FALSE, error |-> "", msg |-> "", val |-> val]

Fail(error, msg) == [threw |-> TRUE, error |-> error, msg |-> msg, val |-> Undefined]

\* 0-based array read; out of range reads give undefined
At(arr, i) == IF i >= 0 /\ i < Len(arr) THEN arr[i + 1] ELSE Undefined

(***************************************************************************)
(* Hash functions (src/src/utils/hash.ts, options.hashFunction).           *)
(***************************************************************************)
\* createHash(algorithm).update(data).digest(): the digest of the data as a
\* buffer that names the data it was computed from, the data between the
\* bytes 254 and 255.  Equal data give equal digests and different data give
\* different digests, and the concatenation of two digests determines both,
\* as with the 32-byte digests of SHA-256.  The length of a digest and the
\* byte order of two digests are not those of their SHA-256 values; where
\* the program reads the order of two digests the model reads sha256Bytes.
Digest(data) == <<254>> \o data \o <<255>>

\* the data a digest was computed from
DigestData(digest) == SubSeq(digest, 2, Len(digest) - 1)

\* createHash("sha256").update(data).digest().subarray(0, 4) for the data that
\* trees of up to eight leaves with sorted pairs hash below the root: the
\* leaves "", "\x00" and "\x01", the sorted pairs of their digests and the
\* sorted pairs of the digests of those.  A digest within the data stands for
\* its 32 bytes.
sha256Values ==
  {
    <<<<>>, <<227, 176, 196, 66>>>>,
    <<<<0>>, <<110, 52, 11, 156>>>>,
    <<<<1>>, <<75, 245, 18, 47>>>>,
    <<<<254, 255, 254, 255>>, <<45, 186, 93, 188>>>>,
    <<<<254, 0, 255, 254, 255>>, <<19, 4, 57, 175>>>>,
    <<<<254, 1, 255, 254, 255>>, <<12, 184, 36, 21>>>>,
    <<<<254, 0, 255, 254, 0, 255>>, <<178, 137, 222, 169>>>>,
    <<<<254, 1, 255, 254, 0, 255>>, <<134, 192, 10, 8>>>>,
    <<<<254, 1, 255, 254, 1, 255>>, <<226, 140, 139, 38>>>>,
    <<<<254, 254, 255, 254, 255, 255, 254, 254, 255, 254, 255, 255>>,
      <<83, 16, 163, 48>>>>,
    <<<<254, 254, 0, 255, 254, 255, 255, 254, 254, 255, 254, 255, 255>>,
      <<3, 72, 189, 155>>>>,
    <<<<254, 254, 1, 255, 254, 255, 255, 254, 254, 255, 254, 255, 255>>,
      <<128, 71, 183, 65>>>>,
    <<<<254, 254, 255, 254, 255, 255, 254, 254, 0, 255, 254, 0, 255, 255>>,
      <<71, 203, 167, 140>>>>,
    <<<<254, 254, 255, 254, 255, 255, 254, 254, 1, 255, 254, 0, 255, 255>>,
      <<92, 106, 119, 234>>>>,
    <<<<254, 254, 255, 254, 255, 255, 254, 254, 1, 255, 254, 1, 255, 255>>,
      <<153, 119, 110, 136>>>>,
    <<<<254, 254, 0, 255, 254, 255, 255, 254, 254, 0, 255, 254, 255, 255>>,
      <<103, 197, 181, 190>>>>,
    <<<<254, 254, 1, 255, 254, 255, 255, 254, 254, 0, 255, 254, 255, 255>>,
      <<99, 202, 38, 229>>>>,
    <<<<254, 254, 0, 255, 254, 255, 255, 254, 254, 0, 255, 254, 0, 255, 255>>,
      <<104, 102, 186, 237>>>>,
    <<<<254, 254, 0, 255, 254, 255, 255, 254, 254, 1, 255, 254, 0, 255, 255>>,
      <<176, 17, 182, 60>>>>,
    <<<<254, 254, 0, 255, 254, 255, 255, 254, 254, 1, 255, 254, 1, 255, 255>>,
      <<52, 39, 60, 46>>>>,
    <<<<254, 254, 1, 255, 254, 255, 255, 254, 254, 1, 255, 254, 255, 255>>,
      <<58, 173, 193, 63>>>>,
    <<<<254, 254, 1, 255, 254, 255, 255, 254, 254, 0, 255, 254, 0, 255, 255>>,
      <<34, 72, 134, 49>>>>,
    <<<<254, 254, 1, 255, 254, 255, 255, 254, 254, 1, 255, 254, 0, 255, 255>>,
      <<220, 51, 210, 195>>>>,
    <<<<254, 254, 1, 255, 254, 255, 255, 254, 254, 1, 255, 254, 1, 255, 255>>,
      <<154, 49, 84, 20>>>>,
    <<<<254, 254, 0, 255, 254, 0, 255, 255, 254, 254, 0, 255, 254, 0, 255, 255>>,
      <<248, 211, 204, 204>>>>,
    <<<<254, 254, 1, 255, 254, 0, 255, 255, 254, 254, 0, 255, 254, 0, 255, 255>>,
      <<112, 210, 66, 70>>>>,
    <<<<254, 254, 0, 255, 254, 0, 255, 255, 254, 254, 1, 255, 254, 1, 255, 255>>,
      <<8, 132, 222, 61>>>>,
    <<<<254, 254, 1, 255, 254, 0, 255, 255, 254, 254, 1, 255, 254, 0, 255, 255>>,
      <<136, 244, 130, 84>>>>,
    <<<<254, 254, 1, 255, 254, 0, 255, 255, 254, 254, 1, 255, 254, 1, 255, 255>>,
      <<109, 245, 33, 87>>>>,
    <<<<254, 254, 1, 255, 254, 1, 255, 255, 254, 254, 1, 255, 254, 1, 255, 255>>,
      <<3, 4, 64, 100>>>>
  }

\* sha256Values as a function of the data
sha256Of ==
  [data \in {e[1] : e \in sha256Values} |->
     (CHOOSE e \in sha256Values : e[1] = data)[2]]

\* the first bytes of the SHA-256 value a digest of the model stands for; a
\* digest of other data than those of sha256Values is left as it is
sha256Bytes(digest) ==
  IF DigestData(digest) \in DOMAIN sha256Of THEN sha256Of[DigestData(digest)]
  ELSE digest

createHashFunction(algorithm, data) ==
  IF algorithm = "none" THEN data ELSE Digest(data)

\* (data) => Buffer.from("custom" + data.toString()); the bytes of the model
\* are ASCII, which toString and Buffer.from leave as they are
customHash(data) == <<99, 117, 115, 116, 111, 109>> \o data

\* (data) => { if (data.length === 0 || data.length > 2)
\*               throw new Error("unsupported length"); return data; }
limitedHashThrows(data) == Len(data) = 0 \/ Len(data) > 2

limitedHash(data) == data

\* the value hashFn(data) returns when it returns
Hash(hk, data) ==
  IF hk = "custom" THEN customHash(data)
  ELSE IF hk = "limited" THEN limitedHash(data)
  ELSE createHashFunction(hk, data)

\* the call hashFn(data): the value returned or the error thrown
CallHash(hk, data) ==
  IF hk = "limited" /\ limitedHashThrows(data)
  THEN Fail("Error", "unsupported length")
  ELSE Ok(Hash(hk, data))

(***************************************************************************)
(* Construction (index.ts, constructor and _buildTree).                    *)
(***************************************************************************)
\* Values of a property of the options besides undefined, the functions
\* (named by their kind) and the algorithm names: the number 0 and the
\* string "not a function".
NonFunctions == {"0", "'not a function'"}

\* the test `if (v)`
IsTruthy(v) == v \notin {"undefined", "0"}

\* typeof v === "function"
IsFunction(v) == v \in HashKinds

supportedAlgorithms ==
  {"sha1", "sha256", "sha512", "ripemd160", "whirlpool", "md5", "none"}

isValidHashAlgorithm(algorithm) == algorithm \in supportedAlgorithms

\* options.hashFunction, else options.hashAlgorithm, else the default; a
\* function value is named by its kind
SelectHash(options) ==
  IF IsTruthy(options.hashFunction) THEN options.hashFunction
  ELSE IF IsTruthy(options.hashAlgorithm) THEN options.hashAlgorithm
  ELSE "sha256"

\* the two throw statements of the hash function set-up; "" when it passes
OptionError(options) ==
  IF IsTruthy(options.hashFunction)
  THEN IF ~IsFunction(options.hashFunction)
       THEN "Hash function must be a function"
       ELSE ""
  ELSE IF IsTruthy(options.hashAlgorithm)
            /\ ~isValidHashAlgorithm(options.hashAlgorithm)
       THEN "Unsupported hash algorithm: " \o options.hashAlgorithm
       ELSE ""

OptionSet == [hashFunction : {"undefined"} \cup HashKinds,
              hashAlgorithm : {"undefined", "none", "sha256"}]

\* the leaves whose hashing throws (1-based positions)
FailingLeaves(hk, leaves) == {k \in 1..Len(leaves) : CallHash(hk, leaves[k]).threw}

\* mutant of HashLeaves: the position of a leaf is hashed with its content
HashLeavesWithPosition(hk, leaves) ==
  Ok([k \in 1..Len(leaves) |-> Hash(hk, leaves[k] \o <<k - 1>>)])

\* leaves.map(...): the hashes, or the MerkleTreeError made from the error of
\* the first leaf whose hashing throws; val holds the leaves hashed so far
HashLeaves(hk, leaves) ==
  IF FailingLeaves(hk, leaves) = {}
  THEN Ok([k \in 1..Len(leaves) |-> Hash(hk, leaves[k])])
  ELSE LET k == CHOOSE j \in FailingLeaves(hk, leaves) :
                  \A m \in FailingLeaves(hk, leaves) : j <= m
       IN [Fail("MerkleTreeError",
                "Failed to hash leaf at index " \o ToString(k - 1) \o ": "
                  \o CallHash(hk, leaves[k]).msg)
             EXCEPT !.val = [m \in 1..(k - 1) |-> Hash(hk, leaves[m])]]

\* one iteration of the for loop put in front of the outcome of the rest: h
\* is the outcome of the hash call, rest(i + 2) the loop from i + 2 on
PushThen(h, rest) ==
  IF h.threw THEN [h EXCEPT !.val = <<>>]
  ELSE [rest EXCEPT !.val = <<h.val>> \o @]

\* mutant of PairUp: the children are concatenated right first
RECURSIVE PairUpSwapped(_, _, _)
PairUpSwapped(hk, level, i) ==
  IF i >= Len(level) THEN Ok(<<>>)
  ELSE LET left == level[i + 1]
           right == IF i + 1 < Len(level) THEN level[i + 2] ELSE left
       IN PushThen(CallHash(hk, right \o left), PairUpSwapped(hk, level, i + 2))

\* mutant of PairUp: the unpaired last node of an odd level is dropped
RECURSIVE PairUpDropOdd(_, _, _)
PairUpDropOdd(hk, level, i) ==
  IF i + 1 >= Len(level) THEN Ok(<<>>)
  ELSE PushThen(CallHash(hk, level[i + 1] \o level[i + 2]),
                PairUpDropOdd(hk, level, i + 2))

\* mutant of PairUp: the unpaired last node of an odd level moves up as it is
RECURSIVE PairUpPromotesOdd(_, _, _)
PairUpPromotesOdd(hk, level, i) ==
  IF i >= Len(level) THEN Ok(<<>>)
  ELSE IF i + 1 < Len(level)
       THEN PushThen(CallHash(hk, level[i + 1] \o level[i + 2]),
                     PairUpPromotesOdd(hk, level, i + 2))
       ELSE Ok(<<level[i + 1]>>)

\* the for loop of _buildTree, from position i (0-based) of level: the array
\* `next`, or the error the hash function threw with the part of `next`
\* pushed before it
RECURSIVE PairUp(_, _, _)
PairUp(hk, level, i) ==
  IF i >= Len(level) THEN Ok(<<>>)
  ELSE LET left == level[i + 1]
           right == IF i + 1 < Len(level) THEN level[i + 2] ELSE left
       IN PushThen(CallHash(hk, left \o right), PairUp(hk, level, i + 2))

\* the while loop of _buildTree: b holds the levels built and the hash calls
\* made so far, and the error that ended the loop if one was thrown
RECURSIVE _buildTree(_, _)

Building(tree, calls) ==
  [tree |-> tree, calls |-> calls, threw |-> FALSE, error |-> "", msg |-> ""]

\* mutant of Aborted: every pair of the level is hashed before the error of
\* one of them ends the loop
AbortedAfterLevel(b, next) ==
  [b EXCEPT !.threw = TRUE, !.error = next.error, !.msg = next.msg,
            !.calls = @ + (Len(b.tree[Len(b.tree)]) + 1) \div 2]

\* the loop ends with the error thrown by a hash call
Aborted(b, next) ==
  [b EXCEPT !.threw = TRUE, !.error = next.error, !.msg = next.msg,
            !.calls = @ + Len(next.val) + 1]

Pushed(b, next) ==
  [b EXCEPT !.tree = Append(@, next.val), !.calls = @ + Len(next.val)]

\* mutant of _buildTree: the loop stops at a level of two nodes
RECURSIVE _buildTreeStopsEarly(_, _)
_buildTreeStopsEarly(hk, b) ==
  LET level == b.tree[Len(b.tree)]
  IN IF Len(level) > 2
     THEN LET next == PairUp(hk, level, 0)
          IN IF next.threw THEN Aborted(b, next)
             ELSE _buildTreeStopsEarly(hk, Pushed(b, next))
     ELSE b

\* mutant of _buildTree: the loop body runs once before the test (do-while)
RECURSIVE _buildTreeDoWhile(_, _)
_buildTreeDoWhile(hk, b) ==
  LET level == b.tree[Len(b.tree)]
  IN IF Len(level) > 1 \/ Len(b.tree) = 1
     THEN LET next == PairUp(hk, level, 0)
          IN IF next.threw THEN Aborted(b, next)
             ELSE _buildTreeDoWhile(hk, Pushed(b, next))
     ELSE b

_buildTree(hk, b) ==
  LET level == b.tree[Len(b.tree)]
  IN IF Len(level) > 1
     THEN LET next == PairUp(hk, level, 0)
          IN IF next.threw THEN Aborted(b, next)
             ELSE _buildTree(hk, Pushed(b, next))
     ELSE b

NoCall ==
  [op |-> "none", arg |-> <<>>, threw |-> FALSE, error |-> "", msg |-> "",
   val |-> Undefined]

Returned(op, arg, val) ==
  [op |-> op, arg |-> arg, threw |-> FALSE, error |-> "", msg |-> "", val |-> val]

\* a call that ended with an error of class `error`
ThrewAs(op, arg, error, msg) ==
  [op |-> op, arg |-> arg, threw |-> TRUE, error |-> error, msg |-> msg,
   val |-> Undefined]

\* every throw statement of index.ts raises a MerkleTreeError
Threw(op, arg, msg) == ThrewAs(op, arg, "MerkleTreeError", msg)

Init ==
  /\ input = <<>>
  /\ hashFn = "undefined"
  /\ status = "none"
  /\ _leaves = <<>>
  /\ _tree = <<>>
  /\ hashCalls = 0
  /\ ret = NoCall
  /\ args = <<>>
  /\ sortPairs = FALSE
  /\ nodes = <<>>
  /\ buffers = <<>>

\* the constructor threw: no instance, `calls` hash calls were made
NoInstance(error, msg, calls) ==
  [threw |-> TRUE, error |-> error, msg |-> msg,
   hashFn |-> "undefined", _leaves |-> <<>>, _tree |-> <<>>, calls |-> calls]

\* the constructor from the leaf hashing on
HashAndBuild(hk, leaves) ==
  LET hashed == HashLeaves(hk, leaves)
      b == _buildTree(hk, Building(<<hashed.val>>, Len(leaves)))
  IN IF hashed.threw
     THEN NoInstance(hashed.error, hashed.msg, Len(hashed.val) + 1)
     ELSE IF b.threw
          THEN NoInstance(b.error, b.msg, b.calls)
          ELSE [threw |-> FALSE, error |-> "", msg |-> "",
                hashFn |-> hk, _leaves |-> hashed.val, _tree |-> b.tree,
                calls |-> b.calls]

\* mutant of New: the emptiness guard is missing
NewUnchecked(leaves, options) == HashAndBuild(SelectHash(options), leaves)

\* new MerkleTree(leaves, options): the error thrown, or the instance's fields
\* together with the number of hash calls made
New(leaves, options) ==
  IF Len(leaves) = 0
  THEN NoInstance("MerkleTreeError", "Leaves must be a non-empty array", 0)
  ELSE IF OptionError(options) # ""
       THEN NoInstance("MerkleTreeError", OptionError(options), 0)
       ELSE HashAndBuild(SelectHash(options), leaves)

\* the leaves are strings: the constructor makes a Buffer of each
AsStrings(leaves) == [k \in 1..Len(leaves) |-> 0]

\* the leaves are Buffers, each an object of its own
AsBuffers(leaves) == [k \in 1..Len(leaves) |-> k]

\* the leaves are Buffers, and leaves of equal content are one object, named
\* by its first place in the list
AsReusedBuffers(leaves) ==
  [k \in 1..Len(leaves) |->
     CHOOSE j \in 1..k : /\ leaves[j] = leaves[k]
                         /\ \A m \in 1..(j - 1) : leaves[m] # leaves[k]]

\* new MerkleTree(leaves, options) where refs tells the strings from the
\* Buffers among the leaves
ConstructFrom(leaves, refs, options) ==
  LET t == New(leaves, options)
  IN /\ input' = leaves
     /\ buffers' = refs
     /\ status' = IF t.threw THEN "failed" ELSE "built"
     /\ hashFn' = t.hashFn
     /\ _leaves' = t._leaves
     /\ _tree' = t._tree
     /\ hashCalls' = t.calls
     /\ ret' = IF t.threw THEN ThrewAs("new", <<>>, t.error, t.msg)
               ELSE Returned("new", <<>>, Undefined)
     /\ UNCHANGED <<args, sortPairs, nodes>>

\* new MerkleTree(leaves, options) for some list of strings and options
Construct ==
  /\ status = "none"
  /\ \E leaves \in LeafLists, options \in OptionSet :
       ConstructFrom(leaves, AsStrings(leaves), options)

\* new MerkleTree(leaves, options) for some list of Buffers and options
ConstructBuffers ==
  /\ status = "none"
  /\ \E leaves \in LeafLists, options \in OptionSet :
       \E refs \in {AsBuffers(leaves), AsReusedBuffers(leaves)} :
         ConstructFrom(leaves, refs, options)

(***************************************************************************)
(* Getters (index.ts).                                                     *)
(***************************************************************************)
rootOf(tree) == At(tree[Len(tree)], 0)

root == rootOf(_tree)

leafCount == Len(_leaves)

depth == Len(_tree)

(***************************************************************************)
(* Leaf indexes.  An index is the number num/den, so that fractional       *)
(* arguments can be passed as well as integers.                            *)
(***************************************************************************)
IndexSet ==
  {[num |-> n, den |-> 1] : n \in -1..MaxLeaves}
    \cup {[num |-> 1, den |-> 2], [num |-> 3, den |-> 2]}

NumberIsInteger(index) == index.num % index.den = 0

\* `${index}`: the decimal text of the number; the fractions of the model are
\* halves
IndexText(index) ==
  IF NumberIsInteger(index) THEN ToString(index.num \div index.den)
  ELSE ToString(index.num \div index.den) \o ".5"

\* `Leaf index ${index} out of bounds [0, ${this._leaves.length - 1}]`
OutOfBounds(leaves, index) ==
  "Leaf index " \o IndexText(index) \o " out of bounds [0, "
    \o ToString(Len(leaves) - 1) \o "]"

\* mutant of IndexError: the integer guard is missing
IndexErrorNoIntegerGuard(leaves, index) ==
  IF index.num < 0 \/ index.num >= Len(leaves) * index.den
  THEN OutOfBounds(leaves, index)
  ELSE ""

\* the two guards shared by getProof and getLeaf; "" when the index passes
IndexError(leaves, index) ==
  IF ~NumberIsInteger(index) THEN "Index must be an integer"
  ELSE IF index.num < 0 \/ index.num >= Len(leaves) * index.den
       THEN OutOfBounds(leaves, index)
       ELSE ""

(***************************************************************************)
(* getProof and getLeaf (index.ts).                                        *)
(***************************************************************************)
\* mutant of ProofLoop: a node without a sibling contributes no step
RECURSIVE ProofLoopSkipsSelfPair(_, _, _)
ProofLoopSkipsSelfPair(tree, level, idx) ==
  IF level >= Len(tree) - 1 THEN <<>>
  ELSE LET currentLevel == tree[level + 1]
           isRightNode == idx % 2 = 1
           siblingIndex == IF isRightNode THEN idx - 1 ELSE idx + 1
           found == At(currentLevel, siblingIndex)
       IN (IF found = Undefined THEN <<>>
           ELSE <<[sibling |-> found,
                   position |-> IF isRightNode THEN "left" ELSE "right"]>>)
            \o ProofLoopSkipsSelfPair(tree, level + 1, idx \div 2)

\* mutant of ProofLoop: the index is not moved to the parent
RECURSIVE ProofLoopKeepsIndex(_, _, _)
ProofLoopKeepsIndex(tree, level, idx) ==
  IF level >= Len(tree) - 1 THEN <<>>
  ELSE LET currentLevel == tree[level + 1]
           isRightNode == idx % 2 = 1
           siblingIndex == IF isRightNode THEN idx - 1 ELSE idx + 1
           found == At(currentLevel, siblingIndex)
           siblingHash == IF found # Undefined THEN found ELSE At(currentLevel, idx)
       IN <<[sibling |-> siblingHash,
             position |-> IF isRightNode THEN "left" ELSE "right"]>>
            \o ProofLoopKeepsIndex(tree, level + 1, idx)

\* the for loop of getProof from `level` on, idx being the node on the path
RECURSIVE ProofLoop(_, _, _)
ProofLoop(tree, level, idx) ==
  IF level >= Len(tree) - 1 THEN <<>>
  ELSE LET currentLevel == tree[level + 1]
           isRightNode == idx % 2 = 1
           siblingIndex == IF isRightNode THEN idx - 1 ELSE idx + 1
           found == At(currentLevel, siblingIndex)
           siblingHash == IF found # Undefined THEN found ELSE At(currentLevel, idx)
       IN <<[sibling |-> siblingHash,
             position |-> IF isRightNode THEN "left" ELSE "right"]>>
            \o ProofLoop(tree, level + 1, idx \div 2)

getProof(leaves, tree, index) ==
  LET err == IndexError(leaves, index)
  IN IF err # "" THEN Threw("getProof", index, err)
     ELSE Returned("getProof", index, ProofLoop(tree, 0, index.num \div index.den))

getLeaf(leaves, index) ==
  LET err == IndexError(leaves, index)
  IN IF err # "" THEN Threw("getLeaf", index, err)
     ELSE Returned("getLeaf", index, leaves[(index.num \div index.den) + 1])

\* mutant of GetProof: the levels are consumed while the proof is collected
GetProofShiftsTree(index) ==
  /\ status = "built"
  /\ ret' = getProof(_leaves, _tree, index)
  /\ _tree' = IF Len(_tree) > 1 THEN Tail(_tree) ELSE _tree
  /\ UNCHANGED <<input, hashFn, status, _leaves, hashCalls, args, sortPairs,
                 nodes, buffers>>

GetProof(index) ==
  /\ status = "built"
  /\ ret' = getProof(_leaves, _tree, index)
  /\ UNCHANGED <<input, hashFn, status, _leaves, _tree, hashCalls, args,
                 sortPairs, nodes, buffers>>

GetLeaf(index) ==
  /\ status = "built"
  /\ ret' = getLeaf(_leaves, index)
  /\ UNCHANGED <<input, hashFn, status, _leaves, _tree, hashCalls, args,
                 sortPairs, nodes, buffers>>

(***************************************************************************)
(* verifyProof (index.ts, static).                                         *)
(***************************************************************************)
\* the two guards of the reducer callback; "" when the step passes
StepError(item) ==
  IF ~IsBuffer(item.sibling) THEN "Proof sibling must be a Buffer"
  ELSE IF item.position # "left" /\ item.position # "right"
       THEN "Proof position must be either \"left\" or \"right\""
       ELSE ""

\* mutant of ReduceStep: the position of the sibling is ignored
ReduceStepIgnoresPosition(hk, computedHash, item) ==
  IF StepError(item) # "" THEN Fail("MerkleTreeError", StepError(item))
  ELSE CallHash(hk, computedHash \o item.sibling)

\* mutant of ReduceStep: the running hash is paired with itself
ReduceStepIgnoresSibling(hk, computedHash, item) ==
  IF StepError(item) # "" THEN Fail("MerkleTreeError", StepError(item))
  ELSE CallHash(hk, computedHash \o computedHash)

\* mutant of ReduceStep: a step that is neither "left" nor "right" is taken
\* as a "right" step
ReduceStepDefaultsRight(hk, computedHash, item) ==
  IF ~IsBuffer(item.sibling) THEN Fail("MerkleTreeError", "Proof sibling must be a Buffer")
  ELSE IF item.position = "left"
       THEN CallHash(hk, item.sibling \o computedHash)
       ELSE CallHash(hk, computedHash \o item.sibling)

\* mutant of ReduceStep: a "left" sibling is put on the right and a "right"
\* sibling on the left
ReduceStepSwapsSides(hk, computedHash, item) ==
  IF StepError(item) # "" THEN Fail("MerkleTreeError", StepError(item))
  ELSE IF item.position = "left"
       THEN CallHash(hk, computedHash \o item.sibling)
       ELSE CallHash(hk, item.sibling \o computedHash)

\* the reducer callback: one proof step applied to the running hash, or the
\* error it throws
ReduceStep(hk, computedHash, item) ==
  IF StepError(item) # "" THEN Fail("MerkleTreeError", StepError(item))
  ELSE IF item.position = "left"
       THEN CallHash(hk, item.sibling \o computedHash)
       ELSE CallHash(hk, computedHash \o item.sibling)

\* proof.reduce(callback, computedHash): the final hash, or the error of the
\* first step that throws
RECURSIVE Reduce(_, _, _)
Reduce(hk, proof, computedHash) ==
  IF proof = <<>> THEN Ok(computedHash)
  ELSE LET step == ReduceStep(hk, computedHash, Head(proof))
       IN IF step.threw THEN step ELSE Reduce(hk, Tail(proof), step.val)

\* mutant of BufferEquals: only the common prefix is compared
BufferEqualsPrefix(a, b) ==
  \A k \in 1..(IF Len(a) < Len(b) THEN Len(a) ELSE Len(b)) : a[k] = b[k]

\* mutant of BufferEquals: only the lengths are compared
BufferEqualsLength(a, b) == Len(a) = Len(b)

\* a.equals(b): same length and same bytes
BufferEquals(a, b) == a = b

\* the guards on leafHash and root, then the fold inside try/catch: an error
\* thrown by a step or by the hash function is thrown again as a
\* MerkleTreeError
verifyProof(leafHash, proof, rootHash, hk) ==
  LET arg == [leafHash |-> leafHash, proof |-> proof, root |-> rootHash, hashFn |-> hk]
      folded == Reduce(hk, proof, leafHash)
  IN IF ~IsBuffer(leafHash) THEN Threw("verifyProof", arg, "Leaf hash must be a Buffer")
     ELSE IF ~IsBuffer(rootHash) THEN Threw("verifyProof", arg, "Root must be a Buffer")
     ELSE IF folded.threw
          THEN Threw("verifyProof", arg, "Proof verification failed: " \o folded.msg)
          ELSE Returned("verifyProof", arg, BufferEquals(folded.val, rootHash))

\* a caller checks leaf i of the tree against the tree's own proof of i
VerifyProof(i) ==
  /\ status = "built"
  /\ i \in 0..(leafCount - 1)
  /\ ret' = verifyProof(_leaves[i + 1], ProofLoop(_tree, 0, i), root, hashFn)
  /\ UNCHANGED <<input, hashFn, status, _leaves, _tree, hashCalls, args,
                 sortPairs, nodes, buffers>>

(***************************************************************************)
(* Serialization (index.ts toJSON / fromJSON, utils validateSerializedTree)*)
(***************************************************************************)
HexChars == <<"0", "1", "2", "3", "4", "5", "6", "7",
              "8", "9", "a", "b", "c", "d", "e", "f">>

UpperHexChars == <<"A", "B", "C", "D", "E", "F">>

\* the value of a hexadecimal digit, -1 for any other character
HexValue(c) ==
  IF \E k \in 1..16 : HexChars[k] = c
  THEN (CHOOSE k \in 1..16 : HexChars[k] = c) - 1
  ELSE IF \E k \in 1..6 : UpperHexChars[k] = c
       THEN (CHOOSE k \in 1..6 : UpperHexChars[k] = c) + 9
       ELSE -1

\* buf.toString("hex"): two lower-case digits per byte
RECURSIVE toStringHex(_)
toStringHex(buf) ==
  IF buf = <<>> THEN <<>>
  ELSE <<HexChars[(Head(buf) \div 16) + 1], HexChars[(Head(buf) % 16) + 1]>>
         \o toStringHex(Tail(buf))

\* Buffer.from(h, "hex"): pairs of digits, stopping at the first pair that is
\* not hexadecimal; a trailing single digit is dropped
RECURSIVE BufferFromHex(_)
BufferFromHex(h) ==
  IF Len(h) < 2 \/ HexValue(h[1]) < 0 \/ HexValue(h[2]) < 0 THEN <<>>
  ELSE <<16 * HexValue(h[1]) + HexValue(h[2])>> \o BufferFromHex(SubSeq(h, 3, Len(h)))

JStr(chars) == [t |-> "string", v |-> chars]

JArr(items) == [t |-> "array", v |-> items]

\* a number such as 42
JNum == [t |-> "number", v |-> <<>>]

JNull == [t |-> "null", v |-> <<>>]

\* the value of a property the object does not have
JUndefined == [t |-> "undefined", v |-> <<>>]

\* { "leaves": leaves, "tree": tree }
JObj(leaves, tree) == [t |-> "object", leaves |-> leaves, tree |-> tree]

\* the text "null": no object, no properties
JNullDoc == [t |-> "null", leaves |-> JUndefined, tree |-> JUndefined]

toJSON(leaves, tree) ==
  JObj(JArr([k \in 1..Len(leaves) |-> JStr(toStringHex(leaves[k]))]),
       JArr([l \in 1..Len(tree) |->
              JArr([k \in 1..Len(tree[l]) |-> JStr(toStringHex(tree[l][k]))])]))

\* /^[0-9a-fA-F]+$/.test(chars)
hexRegexTest(chars) ==
  Len(chars) > 0 /\ \A k \in 1..Len(chars) : HexValue(chars[k]) >= 0

IsHexString(x) == x.t = "string" /\ hexRegexTest(x.v)

\* mutant of ValidateLevels: every level is checked to be an array before
\* any hash is looked at
ValidateLevelsArraysFirst(levels, l) ==
  IF \E m \in l..Len(levels) : levels[m].t # "array"
  THEN "Invalid tree data: tree levels must be arrays"
  ELSE IF \E m \in l..Len(levels) : \E k \in 1..Len(levels[m].v) :
            ~IsHexString(levels[m].v[k])
       THEN "Invalid tree data: tree hashes must be hex strings"
       ELSE ""

\* the loop over data.tree from level l on; "" when every level passes
RECURSIVE ValidateLevels(_, _)
ValidateLevels(levels, l) ==
  IF l > Len(levels) THEN ""
  ELSE IF levels[l].t # "array"
       THEN "Invalid tree data: tree levels must be arrays"
       ELSE IF \E k \in 1..Len(levels[l].v) : ~IsHexString(levels[l].v[k])
            THEN "Invalid tree data: tree hashes must be hex strings"
            ELSE ValidateLevels(levels, l + 1)

\* the message of the Error thrown, "" when the data is accepted
validateSerializedTree(data) ==
  IF data.t # "object" THEN "Invalid tree data: must be an object"
  ELSE IF data.leaves.t # "array" THEN "Invalid tree data: leaves must be an array"
  ELSE IF data.tree.t # "array" THEN "Invalid tree data: tree must be an array"
  ELSE IF \E k \in 1..Len(data.leaves.v) : ~IsHexString(data.leaves.v[k])
       THEN "Invalid tree data: leaves must be hex strings"
       ELSE ValidateLevels(data.tree.v, 1)

\* Buffer.from("dummy"), the placeholder leaf of fromJSON
Dummy == <<100, 117, 109, 109, 121>>

\* the hash calls fromJSON makes: those of the constructor it runs on the
\* placeholder leaf once the data is accepted
fromJSONCalls(json, hk) ==
  IF validateSerializedTree(json) # "" THEN 0
  ELSE New(<<Dummy>>, [hashFunction |-> hk, hashAlgorithm |-> "undefined"]).calls

fromJSON(json, hk) ==
  LET err == validateSerializedTree(json)
      tree == New(<<Dummy>>, [hashFunction |-> hk, hashAlgorithm |-> "undefined"])
  IN IF err # "" THEN Threw("fromJSON", json, "Failed to deserialize tree: " \o err)
     ELSE IF tree.threw
          THEN Threw("fromJSON", json, "Failed to deserialize tree: " \o tree.msg)
     ELSE Returned("fromJSON", json,
            [hashFn |-> tree.hashFn,
             _leaves |-> [k \in 1..Len(json.leaves.v) |-> BufferFromHex(json.leaves.v[k].v)],
             _tree |-> [l \in 1..Len(json.tree.v) |->
                         [k \in 1..Len(json.tree.v[l].v) |->
                           BufferFromHex(json.tree.v[l].v[k].v)]]])

ToJSON ==
  /\ status = "built"
  /\ ret' = Returned("toJSON", <<>>, toJSON(_leaves, _tree))
  /\ UNCHANGED <<input, hashFn, status, _leaves, _tree, hashCalls, args,
                 sortPairs, nodes, buffers>>

\* a caller hands the text it just got from toJSON back to fromJSON
FromJSON ==
  /\ status = "built"
  /\ ret.op = "toJSON"
  /\ ret' = fromJSON(ret.val, hashFn)
  /\ UNCHANGED <<input, hashFn, status, _leaves, _tree, hashCalls, args,
                 sortPairs, nodes, buffers>>

(***************************************************************************)
(* verifyProof as a function of arbitrary well-formed arguments.           *)
(***************************************************************************)
ProofItems == [sibling : LeafData, position : {"left", "right"}]

Proofs == SeqsUpTo(ProofItems, MaxProofLen)

\* roots offered to the verifier: short buffers, the value the proof folds
\* to, and that value with one more byte
RootsFor(leafHash, proof, hk) ==
  LET r == Reduce(hk, proof, leafHash).val
  IN LeafData \cup {r, r \o <<0>>}

InitVerify ==
  /\ input = <<>>
  /\ hashFn = "undefined"
  /\ status = "none"
  /\ _leaves = <<>>
  /\ _tree = <<>>
  /\ hashCalls = 0
  /\ ret = NoCall
  /\ sortPairs = FALSE
  /\ nodes = <<>>
  /\ buffers = <<>>
  /\ \E leafHash \in LeafData, proof \in Proofs, hk \in TotalHashKinds :
       \E rootHash \in RootsFor(leafHash, proof, hk) :
         args = [leafHash |-> leafHash, proof |-> proof, root |-> rootHash, hashFn |-> hk]

ApplyVerifyProof ==
  /\ ret.op = "none"
  /\ ret' = verifyProof(args.leafHash, args.proof, args.root, args.hashFn)
  /\ UNCHANGED <<input, hashFn, status, _leaves, _tree, hashCalls, args,
                 sortPairs, nodes, buffers>>

(***************************************************************************)
(* verifyProof on arguments that a type check would refuse: siblings that  *)
(* are not Buffers, positions other than "left" and "right", a leaf hash   *)
(* or a root that is not a Buffer, with any hash function.                 *)
(***************************************************************************)
AnyValues == LeafData \cup {Undefined, NotABuffer}

AnyItems == [sibling : AnyValues, position : {"left", "right", "up"}]

\* the proofs with at least one step outside ProofItems
MalformedProofs == SeqsUpTo(AnyItems, MaxProofLen) \ Proofs

InitMalformed ==
  /\ input = <<>>
  /\ hashFn = "undefined"
  /\ status = "none"
  /\ _leaves = <<>>
  /\ _tree = <<>>
  /\ hashCalls = 0
  /\ ret = NoCall
  /\ sortPairs = FALSE
  /\ nodes = <<>>
  /\ buffers = <<>>
  /\ \E leafHash \in AnyValues, proof \in MalformedProofs, hk \in HashKinds :
       \E rootHash \in {<<>>, NotABuffer} :
         args = [leafHash |-> leafHash, proof |-> proof, root |-> rootHash, hashFn |-> hk]

(***************************************************************************)
(* fromJSON and validateSerializedTree on any JSON text.                   *)
(***************************************************************************)
\* strings met in a serialized tree: "", "0a", "C4", "abc", "0g"
JsonStrings ==
  {<<>>, <<"0", "a">>, <<"C", "4">>, <<"a", "b", "c">>, <<"0", "g">>}

\* entries of an array of hashes: strings and a value that is no string
JsonEntries == {JStr(h) : h \in JsonStrings} \cup {JNum}

\* values in the place of `leaves`: arrays, the string "", nothing
JsonLeaves ==
  {JArr(a) : a \in SeqsUpTo(JsonEntries, MaxJsonLen)} \cup {JStr(<<>>), JUndefined}

\* values in the place of a level: arrays of at most one entry, the string ""
JsonLevels ==
  {JArr(a) : a \in SeqsUpTo(JsonEntries, 1)} \cup {JStr(<<>>)}

\* values in the place of `tree`: arrays of levels, a number, nothing
JsonTrees ==
  {JArr(a) : a \in SeqsUpTo(JsonLevels, MaxJsonLen)} \cup {JNum, JUndefined}

JsonDocs ==
  {JObj(leaves, tree) : leaves \in JsonLeaves, tree \in JsonTrees} \cup {JNullDoc}

\* the text is parsed and handed over with the default hash function or with
\* one that refuses the placeholder leaf
InitJSON ==
  /\ input = <<>>
  /\ hashFn = "undefined"
  /\ status = "none"
  /\ _leaves = <<>>
  /\ _tree = <<>>
  /\ hashCalls = 0
  /\ ret = NoCall
  /\ sortPairs = FALSE
  /\ nodes = <<>>
  /\ buffers = <<>>
  /\ \E json \in JsonDocs, hk \in {"sha256", "limited"} :
       args = [json |-> json, hashFn |-> hk]

\* validateSerializedTree(JSON.parse(json)): returns nothing or throws an Error
Validate ==
  /\ ret.op = "none"
  /\ LET err == validateSerializedTree(args.json)
     IN ret' = IF err # "" THEN ThrewAs("validateSerializedTree", args.json, "Error", err)
               ELSE Returned("validateSerializedTree", args.json, Undefined)
  /\ UNCHANGED <<input, hashFn, status, _leaves, _tree, hashCalls, args,
                 sortPairs, nodes, buffers>>

\* tree = MerkleTree.fromJSON(json, hashFn): the instance returned is the tree
\* of the following calls
Deserialize ==
  /\ ret.op = "none"
  /\ LET r == fromJSON(args.json, args.hashFn)
     IN /\ ret' = r
        /\ hashCalls' = hashCalls + fromJSONCalls(args.json, args.hashFn)
        /\ IF r.threw
           THEN UNCHANGED <<input, hashFn, status, _leaves, _tree, buffers>>
           ELSE /\ input' = <<Dummy>>
                /\ buffers' = AsStrings(<<Dummy>>)
                /\ hashFn' = r.val.hashFn
                /\ status' = "built"
                /\ _leaves' = r.val._leaves
                /\ _tree' = r.val._tree
  /\ UNCHANGED <<args, sortPairs, nodes>>

\* get root() on any levels: the first entry of the top level, undefined
\* when the top level is empty, and a TypeError when there is no level
rootCall(tree) ==
  IF Len(tree) = 0
  THEN ThrewAs("root", <<>>, "TypeError",
               "Cannot read properties of undefined (reading '0')")
  ELSE Returned("root", <<>>, At(tree[Len(tree)], 0))

\* tree.root on the instance fromJSON returned
GetRoot ==
  /\ status = "built"
  /\ ret.op = "fromJSON"
  /\ ret' = rootCall(_tree)
  /\ UNCHANGED <<input, hashFn, status, _leaves, _tree, hashCalls, args,
                 sortPairs, nodes, buffers>>

(***************************************************************************)
(* A verifier that is handed a wrong leaf hash, or a proof of the tree in  *)
(* which one sibling was altered.                                          *)
(***************************************************************************)
\* leaf hashes offered in place of leaf i: the other leaves of the tree, short
\* buffers, and the right leaf hash with a byte appended
WrongLeafHashes(i) ==
  ({_leaves[j] : j \in 1..Len(_leaves)} \cup LeafData \cup {_leaves[i + 1] \o <<0>>})
    \ {_leaves[i + 1]}

\* right after construction:
\* verifyProof(h, tree.getProof(i), tree.root, tree.hashFn) with h not getLeaf(i)
VerifyWrongLeaf ==
  /\ status = "built"
  /\ ret.op = "new"
  /\ \E i \in 0..(leafCount - 1) : \E h \in WrongLeafHashes(i) :
       ret' = verifyProof(h, ProofLoop(_tree, 0, i), root, hashFn)
  /\ UNCHANGED <<input, hashFn, status, _leaves, _tree, hashCalls, args,
                 sortPairs, nodes, buffers>>

\* the buffer with byte p (1-based) changed to the next byte value
FlipByte(buf, p) == [buf EXCEPT ![p] = (@ + 1) % 256]

\* right after construction:
\* verifyProof(tree.getLeaf(i), altered, tree.root, tree.hashFn) where altered
\* is tree.getProof(i) with the first or the last byte of one sibling changed
VerifyAltered ==
  /\ status = "built"
  /\ ret.op = "new"
  /\ \E i \in 0..(leafCount - 1) :
       LET proof == ProofLoop(_tree, 0, i)
       IN \E k \in 1..Len(proof) : \E p \in {1, Len(proof[k].sibling)} :
            /\ p \in 1..Len(proof[k].sibling)
            /\ ret' = verifyProof(_leaves[i + 1],
                                  [proof EXCEPT ![k].sibling = FlipByte(@, p)],
                                  root, hashFn)
  /\ UNCHANGED <<input, hashFn, status, _leaves, _tree, hashCalls, args,
                 sortPairs, nodes, buffers>>

(***************************************************************************)
(* A verifier that starts in the middle of a path, or that is handed a     *)
(* proof of the tree in which the position of one step was flipped.  The   *)
(* caller keeps the leaf index and the step in args.                       *)
(***************************************************************************)
\* right after construction:
\* verifyProof(tree.tree[k][Math.floor(i / 2 ** k)], tree.getProof(i).slice(k),
\*             tree.root, tree.hashFn)
VerifySuffix ==
  /\ status = "built"
  /\ ret.op = "new"
  /\ \E i \in 0..(leafCount - 1), k \in 0..(depth - 1) :
       LET proof == ProofLoop(_tree, 0, i)
       IN /\ ret' = verifyProof(_tree[k + 1][(i \div (2 ^ k)) + 1],
                                SubSeq(proof, k + 1, Len(proof)), root, hashFn)
          /\ args' = [index |-> i, step |-> k, call |-> "suffix"]
  /\ UNCHANGED <<input, hashFn, status, _leaves, _tree, hashCalls, sortPairs,
                 nodes, buffers>>

OtherPosition(position) == IF position = "left" THEN "right" ELSE "left"

\* right after construction:
\* verifyProof(tree.getLeaf(i), flipped, tree.root, tree.hashFn) where flipped
\* is tree.getProof(i) with the position of step k (1-based) exchanged
VerifyFlipped ==
  /\ status = "built"
  /\ ret.op = "new"
  /\ \E i \in 0..(leafCount - 1) :
       LET proof == ProofLoop(_tree, 0, i)
       IN \E k \in 1..Len(proof) :
            /\ ret' = verifyProof(_leaves[i + 1],
                                  [proof EXCEPT ![k].position = OtherPosition(@)],
                                  root, hashFn)
            /\ args' = [index |-> i, step |-> k, call |-> "flip"]
  /\ UNCHANGED <<input, hashFn, status, _leaves, _tree, hashCalls, sortPairs,
                 nodes, buffers>>

(***************************************************************************)
(* A second tree built while the first exists.                             *)
(***************************************************************************)
\* new MerkleTree(leaves, options) once more, from the same leaf list and
\* with any options; the second instance is the value of the call
BuildAgain ==
  /\ status = "built"
  /\ ret.op = "new"
  /\ \E options \in OptionSet :
       LET t == New(input, options)
       IN ret' = IF t.threw THEN ThrewAs("rebuild", options, t.error, t.msg)
                 ELSE Returned("rebuild", options,
                               [hashFn |-> t.hashFn, _leaves |-> t._leaves,
                                _tree |-> t._tree])
  /\ UNCHANGED <<input, hashFn, status, _leaves, _tree, hashCalls, args,
                 sortPairs, nodes, buffers>>

\* longer = new MerkleTree([...leaves, last], { hashFunction: tree.hashFn })
\* where last is the last leaf given to this tree, and then
\* MerkleTree.verifyProof(longer.getLeaf(n), longer.getProof(n), tree.root,
\*                        tree.hashFn) with n the leaf count of this tree
BuildLastRepeated ==
  /\ status = "built"
  /\ ret.op = "new"
  /\ LET leaves == Append(input, input[Len(input)])
         t == New(leaves, [hashFunction |-> hashFn, hashAlgorithm |-> "undefined"])
     IN ret' = IF t.threw THEN ThrewAs("extend", leaves, t.error, t.msg)
               ELSE Returned("extend", leaves,
                             [hashFn |-> t.hashFn, _leaves |-> t._leaves,
                              _tree |-> t._tree,
                              verified |->
                                verifyProof(t._leaves[leafCount + 1],
                                            ProofLoop(t._tree, 0, leafCount),
                                            root, hashFn)])
  /\ UNCHANGED <<input, hashFn, status, _leaves, _tree, hashCalls, args,
                 sortPairs, nodes, buffers>>

(***************************************************************************)
(* A caller that asks for the same proof twice, with another read between  *)
(* the two calls.  The caller keeps the index and the proof of the first   *)
(* call in args.                                                           *)
(***************************************************************************)
\* tree.getProof(index) right after construction
GetProofFirst ==
  /\ ret.op = "new"
  /\ \E index \in IndexSet : GetProof(index)

\* the caller keeps the proof it was given
RememberProof ==
  /\ status = "built"
  /\ ret.op = "getProof"
  /\ ~ret.threw
  /\ args = <<>>
  /\ args' = [index |-> ret.arg, proof |-> ret.val, then |-> ""]
  /\ UNCHANGED <<input, hashFn, status, _leaves, _tree, hashCalls, ret,
                 sortPairs, nodes, buffers>>

\* another read: toJSON(), getLeaf(0), or verifyProof of the proof kept
ReadBetween ==
  /\ status = "built"
  /\ args # <<>>
  /\ args.then = ""
  /\ LET Read(r) == ret' = r /\ args' = [args EXCEPT !.then = r.op]
     IN \/ Read(Returned("toJSON", <<>>, toJSON(_leaves, _tree)))
        \/ Read(getLeaf(_leaves, [num |-> 0, den |-> 1]))
        \/ Read(verifyProof(_leaves[args.index.num + 1], args.proof, root, hashFn))
  /\ UNCHANGED <<input, hashFn, status, _leaves, _tree, hashCalls, sortPairs,
                 nodes, buffers>>

\* tree.getProof(index) with the index of the first call
GetProofAgain ==
  /\ args # <<>>
  /\ args.then # ""
  /\ ret.op # "getProof"
  /\ GetProof(args.index)

(***************************************************************************)
(* A caller that writes to what the tree hands back.  The tree getter      *)
(* returns this._tree itself, whose level 0 is the array this._leaves, and *)
(* root, getLeaf, getLeaves and getProof return the Buffer objects stored  *)
(* in it: a write through any of these references is a write to the tree.  *)
(* A hash function that returns its argument makes the Buffers the caller  *)
(* gave as leaves the leaf hashes of the tree, so that the write is a      *)
(* write to the caller's leaves as well.  The caller keeps a copy of the   *)
(* leaves as they were given in args.                                      *)
(***************************************************************************)
\* the hash functions that return the Buffer they were given
ReturnsArgument(hk) == hk \in {"none", "limited"}

\* the Buffer of leaf hash k is the Buffer the caller gave as leaf k:
\* Buffer.isBuffer(l) ? this.hashFn(l) : this.hashFn(Buffer.from(String(l)))
LeafIsGiven(k) == ReturnsArgument(hashFn) /\ buffers[k] # 0

\* leaf hashes j and k are one Buffer object
SameBuffer(j, k) ==
  j = k \/ (LeafIsGiven(j) /\ LeafIsGiven(k) /\ buffers[j] = buffers[k])

\* the list of the leaves or of their hashes after the write to the Buffer of
\* leaf hash k
WriteLeaf(list, k) ==
  [j \in 1..Len(list) |-> IF SameBuffer(j, k) THEN FlipByte(list[j], 1) ELSE list[j]]

\* buf[0] = (buf[0] + 1) % 256 on the Buffer of node k of level l, reached as
\* tree.tree[l][k], tree.root, tree.getLeaf(k), tree.getLeaves()[k] or a
\* sibling of tree.getProof(i)
WriteBuffer ==
  /\ status = "built"
  /\ ret.op = "new"
  /\ \E l \in 1..Len(_tree) : \E k \in 1..Len(_tree[l]) :
       /\ Len(_tree[l][k]) > 0
       /\ _tree' = IF l = 1 THEN [_tree EXCEPT ![1] = WriteLeaf(@, k)]
                   ELSE [_tree EXCEPT ![l][k] = FlipByte(@, 1)]
       /\ _leaves' = IF l = 1 THEN WriteLeaf(_leaves, k) ELSE _leaves
       /\ input' = IF l = 1 /\ LeafIsGiven(k) THEN WriteLeaf(input, k) ELSE input
       /\ ret' = Returned("write", <<l - 1, k - 1>>, Undefined)
       /\ args' = [given |-> input]
  /\ UNCHANGED <<hashFn, status, hashCalls, sortPairs, nodes, buffers>>

\* tree.tree.pop() on a tree of more than one level
TreePop ==
  /\ status = "built"
  /\ ret.op = "new"
  /\ Len(_tree) > 1
  /\ _tree' = SubSeq(_tree, 1, Len(_tree) - 1)
  /\ ret' = Returned("write", <<>>, Undefined)
  /\ UNCHANGED <<input, hashFn, status, _leaves, hashCalls, args, sortPairs,
                 nodes, buffers>>

\* the caller has written
Written == ret.op = "write"

\* tree.toJSON() after the write
ToJSONAfterWrite == Written /\ ToJSON

\* tree.getProof(index) after the write
GetProofAfterWrite == Written /\ \E index \in IndexSet : GetProof(index)

(***************************************************************************)
(* The tree of core/MerkleTree.ts.  Its nodes are objects that point to    *)
(* one another: `nodes` holds the objects made so far, a node is named by  *)
(* its place in `nodes`, and 0 is the absent (undefined) node.  The fields *)
(* leaves and tree of this class hold nodes; the model keeps them in       *)
(* _leaves and _tree.                                                      *)
(***************************************************************************)
\* a.compare(b): -1, 0 or 1, bytes compared in turn, a proper prefix first
RECURSIVE BufferCompare(_, _)
BufferCompare(a, b) ==
  IF a = <<>> /\ b = <<>> THEN 0
  ELSE IF a = <<>> THEN -1
  ELSE IF b = <<>> THEN 1
  ELSE IF a[1] < b[1] THEN -1
  ELSE IF a[1] > b[1] THEN 1
  ELSE BufferCompare(Tail(a), Tail(b))

\* a.compare(b) on two hashes of the hash function hk: digests are compared
\* by their SHA-256 values, other hashes by their bytes
compare(hk, a, b) ==
  IF hk = "sha256" THEN BufferCompare(sha256Bytes(a), sha256Bytes(b))
  ELSE BufferCompare(a, b)

\* [x, y].sort((a, b) => a.compare(b))
SortPair(hk, x, y) == IF compare(hk, x, y) > 0 THEN <<y, x>> ELSE <<x, y>>

\* a MerkleNode just made: no parent yet
Node(hash, left, right) ==
  [hash |-> hash, parent |-> 0, left |-> left, right |-> right]

\* the outcome of a step that makes nodes: the objects that exist after it
\* and the value returned, or the error the hash function threw
Made(heap, val) ==
  [threw |-> FALSE, error |-> "", msg |-> "", heap |-> heap, val |-> val]

NotMade(h, heap) ==
  [threw |-> TRUE, error |-> h.error, msg |-> h.msg, heap |-> heap, val |-> <<>>]

\* toBuffer is the identity on the byte strings of the model
createLeafNode(heap, data, hk) ==
  LET h == CallHash(hk, data)
  IN IF h.threw THEN NotMade(h, heap)
     ELSE Made(Append(heap, Node(h.val, 0, 0)), Len(heap) + 1)

\* mutant of createParentNode: a hash that occurs twice in the sorted pair
\* is kept once
createParentNodeDropsDuplicate(heap, left, right, hk, sp) ==
  LET sorted == SortPair(hk, heap[left].hash, heap[right].hash)
      pair == IF sp
              THEN IF sorted[1] = sorted[2] THEN <<sorted[1], <<>>>> ELSE sorted
              ELSE <<heap[left].hash, heap[right].hash>>
      h == CallHash(hk, pair[1] \o pair[2])
      parent == Len(heap) + 1
  IN IF h.threw THEN NotMade(h, heap)
     ELSE Made(Append([[heap EXCEPT ![left].parent = parent]
                         EXCEPT ![right].parent = parent],
                      Node(h.val, left, right)),
               parent)

\* the parent of two nodes: its hash, and the parent pointers of both
createParentNode(heap, left, right, hk, sp) ==
  LET pair == IF sp THEN SortPair(hk, heap[left].hash, heap[right].hash)
              ELSE <<heap[left].hash, heap[right].hash>>
      h == CallHash(hk, pair[1] \o pair[2])
      parent == Len(heap) + 1
  IN IF h.threw THEN NotMade(h, heap)
     ELSE Made(Append([[heap EXCEPT ![left].parent = parent]
                         EXCEPT ![right].parent = parent],
                      Node(h.val, left, right)),
               parent)

\* data.map((item) => createLeafNode(item, this.hashFn)) from item k on: the
\* leaves, or the error of the first item whose hashing throws
RECURSIVE core_mapLeaves(_, _, _, _)
core_mapLeaves(heap, data, k, hk) ==
  IF k > Len(data) THEN Made(heap, <<>>)
  ELSE LET leaf == createLeafNode(heap, data[k], hk)
       IN IF leaf.threw THEN leaf
          ELSE [core_mapLeaves(leaf.heap, data, k + 1, hk)
                  EXCEPT !.val = <<leaf.val>> \o @]

\* the for loop of buildTree from position i of currentLevel: nextLevel, or
\* the error of the first parent whose hashing throws
RECURSIVE core_nextLevel(_, _, _, _, _)
core_nextLevel(heap, currentLevel, i, hk, sp) ==
  IF i >= Len(currentLevel) THEN Made(heap, <<>>)
  ELSE LET left == currentLevel[i + 1]
           right == IF i + 1 < Len(currentLevel) THEN currentLevel[i + 2] ELSE left
           parent == createParentNode(heap, left, right, hk, sp)
       IN IF parent.threw THEN parent
          ELSE [core_nextLevel(parent.heap, currentLevel, i + 2, hk, sp)
                  EXCEPT !.val = <<parent.val>> \o @]

\* the while loop of buildTree: levels
RECURSIVE core_buildTree(_, _, _, _)
core_buildTree(heap, levels, hk, sp) ==
  LET currentLevel == levels[Len(levels)]
  IN IF Len(currentLevel) > 1
     THEN LET nextLevel == core_nextLevel(heap, currentLevel, 0, hk, sp)
          IN IF nextLevel.threw THEN nextLevel
             ELSE core_buildTree(nextLevel.heap, Append(levels, nextLevel.val), hk, sp)
     ELSE Made(heap, levels)

\* the options given to the constructor
CoreOptionSet ==
  [hashFunction : {"undefined"} \cup HashKinds,
   sortPairs : {"undefined", "true", "false"}]

\* the constructor threw: no instance; the hash function was called for the
\* nodes made and once more
core_NoInstance(error, msg, heap, calls) ==
  [threw |-> TRUE, error |-> error, msg |-> msg, hashFn |-> "undefined",
   sortPairs |-> FALSE, leaves |-> <<>>, tree |-> <<>>, nodes |-> heap,
   calls |-> calls]

\* new MerkleTree(data, options) of core/MerkleTree.ts: the error thrown, or
\* the fields of the instance, the nodes made and the number of hash calls
core_New(data, options) ==
  IF Len(data) = 0
  THEN core_NoInstance("Error", "Cannot create tree from empty data", <<>>, 0)
  ELSE LET hk == IF IsTruthy(options.hashFunction) THEN options.hashFunction
                 ELSE "sha256"
           sp == options.sortPairs = "true"
           leaves == core_mapLeaves(<<>>, data, 1, hk)
           tree == core_buildTree(leaves.heap, <<leaves.val>>, hk, sp)
       IN IF leaves.threw
          THEN core_NoInstance(leaves.error, leaves.msg, leaves.heap,
                               Len(leaves.heap) + 1)
          ELSE IF tree.threw
               THEN core_NoInstance(tree.error, tree.msg, tree.heap,
                                    Len(tree.heap) + 1)
               ELSE [threw |-> FALSE, error |-> "", msg |-> "", hashFn |-> hk,
                     sortPairs |-> sp, leaves |-> leaves.val, tree |-> tree.val,
                     nodes |-> tree.heap, calls |-> Len(tree.heap)]

\* new MerkleTree(data, options); the caller keeps the options
CoreConstruct ==
  /\ status = "none"
  /\ \E data \in LeafLists, options \in CoreOptionSet :
       \E t \in {core_New(data, options)} :
          /\ input' = data
          /\ status' = IF t.threw THEN "failed" ELSE "built"
          /\ hashFn' = t.hashFn
          /\ sortPairs' = t.sortPairs
          /\ _leaves' = t.leaves
          /\ _tree' = t.tree
          /\ nodes' = t.nodes
          /\ buffers' = AsStrings(data)
          /\ hashCalls' = t.calls
          /\ ret' = IF t.threw THEN ThrewAs("new", options, t.error, t.msg)
                    ELSE Returned("new", options, Undefined)
          /\ args' = options

\* this.tree[this.tree.length - 1][0].hash
core_root(heap, tree) == heap[tree[Len(tree)][1]].hash

\* the hashes of the nodes of every level
core_levels(heap, tree) ==
  [l \in 1..Len(tree) |-> [j \in 1..Len(tree[l]) |-> heap[tree[l][j]].hash]]

\* mutant of core_proofLoop: a node that is its own sibling ends the walk
RECURSIVE core_proofLoopStopsAtSelf(_, _, _, _)
core_proofLoopStopsAtSelf(heap, tree, level, node) ==
  IF level >= Len(tree) - 1 THEN <<>>
  ELSE LET parent == heap[node].parent
       IN IF parent = 0 THEN <<>>
          ELSE LET sibling == IF heap[parent].left = node THEN heap[parent].right
                              ELSE heap[parent].left
               IN IF sibling = 0 \/ sibling = node THEN <<>>
                  ELSE <<[sibling |-> heap[sibling].hash,
                          position |-> IF heap[parent].left = node THEN "right"
                                       ELSE "left"]>>
                         \o core_proofLoopStopsAtSelf(heap, tree, level + 1, parent)

\* the for loop of getProof from `level` on: the walk along the parent
\* pointers from `node`
RECURSIVE core_proofLoop(_, _, _, _)
core_proofLoop(heap, tree, level, node) ==
  IF level >= Len(tree) - 1 THEN <<>>
  ELSE LET parent == heap[node].parent
       IN IF parent = 0 THEN <<>>
          ELSE LET sibling == IF heap[parent].left = node THEN heap[parent].right
                              ELSE heap[parent].left
               IN IF sibling = 0 THEN <<>>
                  ELSE <<[sibling |-> heap[sibling].hash,
                          position |-> IF heap[parent].left = node THEN "right"
                                       ELSE "left"]>>
                         \o core_proofLoop(heap, tree, level + 1, parent)

\* the indexes passed to getProof and getLeaf of this class: integers
CoreIndexSet == -1..MaxLeaves

core_getProof(heap, leaves, tree, index) ==
  IF index < 0 \/ index >= Len(leaves)
  THEN ThrewAs("getProof", index, "Error", "Invalid leaf index")
  ELSE Returned("getProof", index, core_proofLoop(heap, tree, 0, leaves[index + 1]))

core_getLeaf(heap, leaves, index) ==
  IF index < 0 \/ index >= Len(leaves)
  THEN ThrewAs("getLeaf", index, "Error", "Invalid leaf index")
  ELSE Returned("getLeaf", index, heap[leaves[index + 1]].hash)

\* validateProof(proof) for an array of objects: "" when it passes, else the
\* message of the Error thrown for the first item that fails
validateProof(proof) ==
  LET bad == {k \in 1..Len(proof) : StepError(proof[k]) # ""}
  IN IF bad = {} THEN ""
     ELSE StepError(proof[CHOOSE k \in bad : \A m \in bad : k <= m])

\* the for loop of verifyProof: currentHash after the steps of proof, or the
\* error the hash function threw
RECURSIVE core_fold(_, _, _)
core_fold(hk, proof, currentHash) ==
  IF proof = <<>> THEN Ok(currentHash)
  ELSE LET item == Head(proof)
           h == IF item.position = "left"
                THEN CallHash(hk, item.sibling \o currentHash)
                ELSE CallHash(hk, currentHash \o item.sibling)
       IN IF h.threw THEN h ELSE core_fold(hk, Tail(proof), h.val)

\* tree.verifyProof(leafHash, proof, rootHash): errors are not wrapped
core_verifyProof(leafHash, proof, rootHash, hk) ==
  LET arg == [leafHash |-> leafHash, proof |-> proof, root |-> rootHash, hashFn |-> hk]
      folded == core_fold(hk, proof, leafHash)
  IN IF validateProof(proof) # ""
     THEN ThrewAs("verifyProof", arg, "Error", validateProof(proof))
     ELSE IF folded.threw
          THEN ThrewAs("verifyProof", arg, folded.error, folded.msg)
          ELSE Returned("verifyProof", arg, BufferEquals(folded.val, rootHash))

\* tree.getProof(index) right after construction
CoreGetProof ==
  /\ status = "built"
  /\ ret.op = "new"
  /\ \E index \in CoreIndexSet : ret' = core_getProof(nodes, _leaves, _tree, index)
  /\ UNCHANGED <<input, hashFn, status, _leaves, _tree, hashCalls, args,
                 sortPairs, nodes, buffers>>

\* tree.verifyProof(tree.getLeaf(i), tree.getProof(i), tree.root) right
\* after construction
CoreVerifyProof ==
  /\ status = "built"
  /\ ret.op = "new"
  /\ \E i \in 0..(Len(_leaves) - 1) :
       ret' = core_verifyProof(core_getLeaf(nodes, _leaves, i).val,
                               core_getProof(nodes, _leaves, _tree, i).val,
                               core_root(nodes, _tree), hashFn)
  /\ UNCHANGED <<input, hashFn, status, _leaves, _tree, hashCalls, args,
                 sortPairs, nodes, buffers>>

(***************************************************************************)
(* The constructor of index.ts called with any second argument: nothing,   *)
(* an options object whose properties hold any value, or, as in the        *)
(* README's signature new MerkleTree(leaves, hashFn), a function or        *)
(* another value in the place of the options.                              *)
(***************************************************************************)
\* the second argument: t is its type, v the value of one that is no object
SecondArg(t, v, hashFunction, hashAlgorithm, sp) ==
  [t |-> t, v |-> v, hashFunction |-> hashFunction,
   hashAlgorithm |-> hashAlgorithm, sortPairs |-> sp]

SecondArgs ==
  {SecondArg("object", "", f, a, sp) :
     f \in {"undefined", "custom", "limited"} \cup NonFunctions,
     a \in {"undefined", "none", "sha3"},
     sp \in {"undefined", "true", "false"}}
  \cup {SecondArg("undefined", "", "undefined", "undefined", "undefined"),
        SecondArg("string", "'not a function'", "undefined", "undefined", "undefined"),
        SecondArg("function", "custom", "undefined", "undefined", "undefined")}

\* the properties the constructor reads from its parameter `options`: those
\* of the object given, of {} when nothing is given; a string or a function
\* has neither property
Options(second) ==
  IF second.t = "object"
  THEN [hashFunction |-> second.hashFunction, hashAlgorithm |-> second.hashAlgorithm]
  ELSE [hashFunction |-> "undefined", hashAlgorithm |-> "undefined"]

\* new MerkleTree(leaves, second); the caller keeps the second argument
ConstructWith ==
  /\ status = "none"
  /\ \E leaves \in LeafLists, second \in SecondArgs :
       LET t == New(leaves, Options(second))
       IN /\ input' = leaves
          /\ status' = IF t.threw THEN "failed" ELSE "built"
          /\ hashFn' = t.hashFn
          /\ _leaves' = t._leaves
          /\ _tree' = t._tree
          /\ hashCalls' = t.calls
          /\ ret' = IF t.threw THEN ThrewAs("new", second, t.error, t.msg)
                    ELSE Returned("new", second, Undefined)
          /\ args' = second
          /\ buffers' = AsStrings(leaves)
  /\ UNCHANGED <<sortPairs, nodes>>

(***************************************************************************)
(* Properties.                                                             *)
(***************************************************************************)
Built == status = "built"

\* the constructor has just returned an instance
JustBuilt == Built /\ ret.op = "new" /\ ~ret.threw

\* getProof has just returned a proof
GotProof == Built /\ ret.op = "getProof" /\ ~ret.threw

ValidIndexes == 0..(leafCount - 1)

IntIndex(i) == [num |-> i, den |-> 1]

\* the self-pair case: node idx is the last node of an odd level
IsSelfPaired(level, idx) == Len(level) % 2 = 1 /\ idx = Len(level) - 1

\* the latest call was verifyProof(getLeaf(i), getProof(i), root, hashFn)
VerifiedOwnProof(i) ==
  /\ Built
  /\ ret.op = "verifyProof"
  /\ ret.arg.leafHash = getLeaf(_leaves, IntIndex(i)).val
  /\ ret.arg.proof = getProof(_leaves, _tree, IntIndex(i)).val
  /\ ret.arg.root = root
  /\ ret.arg.hashFn = hashFn

\* C1: for every integer i in [0, leafCount) of a built tree, verifyProof
\* applied to getLeaf(i), getProof(i), the root and the tree's hash function
\* returns true.
C1_OwnProofVerifies ==
  \A i \in ValidIndexes : VerifiedOwnProof(i) => (~ret.threw /\ ret.val = TRUE)

\* a proof with a self-pair step and a step for a right node was verified
C1_Witness ==
  /\ leafCount = 5
  /\ VerifiedOwnProof(4)
  /\ ret.val = TRUE
  /\ ret.arg.proof[1].sibling = ret.arg.leafHash
  /\ ret.arg.proof[3].position = "left"

\* C2: fromJSON applied to the text toJSON produced succeeds and returns a
\* tree with the same leaf hashes and the same levels (hence the same root,
\* leafCount and depth), whatever the length of the hashes.
C2_RoundTrip ==
  ret.op = "fromJSON" =>
    /\ ~ret.threw
    /\ ret.val._leaves = _leaves
    /\ ret.val._tree = _tree
    /\ rootOf(ret.val._tree) = root
    /\ Len(ret.val._leaves) = leafCount
    /\ Len(ret.val._tree) = depth

\* C3: level 0 holds the hashes of the n inputs in input order, each level
\* above has ceil(half) the entries of the level below, and the last level
\* has exactly one entry, which is the root.
C3_LevelShape ==
  JustBuilt =>
    /\ leafCount = Len(input)
    /\ _tree[1] = _leaves
    /\ \A k \in 1..Len(input) : _tree[1][k] = Hash(hashFn, input[k])
    /\ \A l \in 1..(Len(_tree) - 1) : Len(_tree[l + 1]) = (Len(_tree[l]) + 1) \div 2
    /\ Len(_tree[Len(_tree)]) = 1
    /\ root = _tree[Len(_tree)][1]

C3_Witness ==
  /\ Built
  /\ ret.op = "new"
  /\ Len(_tree) = 4
  /\ Len(_tree[1]) = 5
  /\ Len(_tree[2]) = 3
  /\ Len(_tree[3]) = 2

\* C4: node j of level k+1 is the hash of node 2j of level k followed by node
\* 2j+1 when that node exists, and of node 2j followed by itself when not.
C4_ParentHash ==
  JustBuilt =>
    \A l \in 1..(Len(_tree) - 1) : \A j \in 0..(Len(_tree[l + 1]) - 1) :
      _tree[l + 1][j + 1] =
        IF 2 * j + 1 < Len(_tree[l])
        THEN Hash(hashFn, _tree[l][2 * j + 1] \o _tree[l][2 * j + 2])
        ELSE Hash(hashFn, _tree[l][2 * j + 1] \o _tree[l][2 * j + 1])

\* a tree with a real pair of different hashes and a self-pair
C4_Witness ==
  /\ Built
  /\ ret.op = "new"
  /\ leafCount = 3
  /\ _tree[1][1] # _tree[1][2]
  /\ _tree[2][1] = Hash(hashFn, _tree[1][1] \o _tree[1][2])
  /\ _tree[2][1] # Hash(hashFn, _tree[1][2] \o _tree[1][1])
  /\ _tree[2][2] = Hash(hashFn, _tree[1][3] \o _tree[1][3])

\* the least k with 2^k >= n
CeilLog2(n) == CHOOSE k \in 0..n : 2 ^ k >= n /\ (k = 0 \/ 2 ^ (k - 1) < n)

\* C5: depth is ceil(log2(leafCount)) + 1 for more than one leaf, 1 for one.
C5_Depth ==
  JustBuilt =>
    /\ leafCount > 1 => depth = CeilLog2(leafCount) + 1
    /\ leafCount = 1 => depth = 1

C5_Witness ==
  /\ Built
  /\ ret.op = "new"
  /\ leafCount = 3
  /\ depth = 3

\* C6: construction from the empty list fails with the empty-input
\* MerkleTreeError before any hash call, and no instance exists afterwards.
C6_EmptyInput ==
  (status # "none" /\ input = <<>>) =>
    /\ status = "failed"
    /\ ret.op = "new"
    /\ ret.threw
    /\ ret.error = "MerkleTreeError"
    /\ ret.msg = "Leaves must be a non-empty array"
    /\ hashCalls = 0
    /\ _leaves = <<>>
    /\ _tree = <<>>

C6_Witness ==
  /\ status = "failed"
  /\ input = <<>>
  /\ ret.op = "new"
  /\ ret.threw

\* the index is an integer of [0, leafCount)
InRange(index) == \E k \in ValidIndexes : index.num = k * index.den

IndexCall == ret.op \in {"getProof", "getLeaf"}

\* C7: getProof and getLeaf throw MerkleTreeError exactly for the indexes
\* that are not integers of [0, leafCount); a failed call returns nothing
\* and leaves the leaves and the levels as they were.
C7_IndexGuard ==
  [][IndexCall' =>
       /\ ret'.threw <=> ~InRange(ret'.arg)
       /\ ret'.threw => /\ ret'.error = "MerkleTreeError"
                        /\ ret'.val = Undefined
                        /\ _leaves' = _leaves
                        /\ _tree' = _tree
       /\ ~ret'.threw => /\ ret'.error = ""
                         /\ ret'.op = "getLeaf" => ret'.val = _leaves[ret'.arg.num + 1]
                         /\ ret'.op = "getProof" => Len(ret'.val) = depth - 1]_vars

\* a fractional index inside the range was refused, and so was leafCount
C7_WitnessFraction ==
  /\ Built
  /\ leafCount = 3
  /\ ret.op = "getProof"
  /\ ret.arg = [num |-> 3, den |-> 2]
  /\ ret.threw

\* C8: getProof returns depth - 1 steps for every valid index, self-pair
\* steps included; the proof of a single-leaf tree is empty.
C8_ProofLength ==
  GotProof =>
    /\ Len(ret.val) = depth - 1
    /\ leafCount = 1 => ret.val = <<>>

\* the proof of the last of five leaves: three steps, two of them self-pairs
C8_Witness ==
  /\ Built
  /\ leafCount = 5
  /\ ret.op = "getProof"
  /\ ret.arg = IntIndex(4)
  /\ ~ret.threw
  /\ Len(ret.val) = 3
  /\ ret.val[1].sibling = _tree[1][5]
  /\ ret.val[2].sibling = _tree[2][3]

\* step k (0-based) of the proof of leaf i, as the claim describes it
ExpectedStep(i, k) ==
  LET idx == i \div (2 ^ k)
      level == _tree[k + 1]
  IN IF IsSelfPaired(level, idx)
     THEN [sibling |-> level[idx + 1], position |-> "right"]
     ELSE IF idx % 2 = 0
          THEN [sibling |-> level[idx + 2], position |-> "right"]
          ELSE [sibling |-> level[idx], position |-> "left"]

\* C9: step k of getProof(i) is fixed by idx = floor(i / 2^k): the sibling
\* is the right neighbour (position "right") for even idx, the left
\* neighbour (position "left") for odd idx, and the node itself with
\* position "right" when idx is the last node of an odd level.
C9_ProofSteps ==
  GotProof =>
    /\ DOMAIN ret.val = 1..(depth - 1)
    /\ \A k \in 0..(depth - 2) : ret.val[k + 1] = ExpectedStep(ret.arg.num, k)

\* the proof of index 2 of three leaves starts with a self-pair step and
\* goes on with a left sibling
C9_Witness ==
  /\ Built
  /\ leafCount = 3
  /\ ret.op = "getProof"
  /\ ret.arg = IntIndex(2)
  /\ ret.val[1] = [sibling |-> _tree[1][3], position |-> "right"]
  /\ ret.val[2] = [sibling |-> _tree[2][1], position |-> "left"]
  /\ _tree[2][1] # _tree[2][2]

\* the value after the first k steps of the fold the claim describes
RECURSIVE FoldTo(_, _, _, _)
FoldTo(hk, leafHash, proof, k) ==
  IF k = 0 THEN leafHash
  ELSE LET cur == FoldTo(hk, leafHash, proof, k - 1)
       IN IF proof[k].position = "left"
          THEN Hash(hk, proof[k].sibling \o cur)
          ELSE Hash(hk, cur \o proof[k].sibling)

\* C10: for well-formed arguments verifyProof does not throw and returns
\* true exactly when the fold over the steps, started at the leaf hash,
\* equals the root in length and in every byte.
C10_VerifyIsFold ==
  ret.op = "verifyProof" =>
    LET a == ret.arg
        folded == FoldTo(a.hashFn, a.leafHash, a.proof, Len(a.proof))
    IN /\ ~ret.threw
       /\ ret.val \in BOOLEAN
       /\ ret.val <=> (Len(folded) = Len(a.root) /\ \A k \in 1..Len(folded) : folded[k] = a.root[k])

\* a root that extends the folded value by one byte was refused
C10_WitnessLonger ==
  /\ ret.op = "verifyProof"
  /\ args # <<>>
  /\ Len(ret.arg.proof) = 2
  /\ ret.arg.proof[1].position = "left"
  /\ ret.arg.proof[2].position = "right"
  /\ Len(ret.arg.root) = Len(Reduce(ret.arg.hashFn, ret.arg.proof, ret.arg.leafHash).val) + 1
  /\ ret.val = FALSE

\* the step is not a { sibling: Buffer, position: "left" | "right" }
Malformed(item) ==
  \/ \E k \in 1..Len(item.sibling) : item.sibling[k] < 0 \/ item.sibling[k] > 255
  \/ item.position \notin {"left", "right"}

\* C11: verifyProof throws a MerkleTreeError, and returns neither true nor
\* false, whenever some step of the proof has a sibling that is not a Buffer
\* or a position other than "left" and "right", at whichever place of the
\* proof and whatever the other steps, the leaf hash and the root are.
C11_MalformedStepThrows ==
  (ret.op = "verifyProof" /\ \E k \in 1..Len(ret.arg.proof) : Malformed(ret.arg.proof[k])) =>
    /\ ret.threw
    /\ ret.error = "MerkleTreeError"
    /\ ret.val = Undefined

\* the only malformed step is the last one, after a step that hashed, and
\* its fault is the position
C11_WitnessLastStep ==
  /\ ret.op = "verifyProof"
  /\ Len(ret.arg.proof) = 2
  /\ ~Malformed(ret.arg.proof[1])
  /\ ret.arg.proof[2].position = "up"
  /\ IsBuffer(ret.arg.proof[2].sibling)
  /\ IsBuffer(ret.arg.leafHash)
  /\ IsBuffer(ret.arg.root)
  /\ ret.arg.hashFn = "sha256"
  /\ ret.threw
  /\ ret.msg = "Proof verification failed: Proof position must be either \"left\" or \"right\""

\* the hash functions of the model that are total and injective: the
\* identity, the digest and the prefixing function
InjectiveKinds == {"none", "sha256", "custom"}

\* the latest call was verifyProof(h, getProof(i), root, hashFn) on the tree
VerifiedProofOf(i) ==
  /\ Built
  /\ ret.op = "verifyProof"
  /\ ret.arg.proof = getProof(_leaves, _tree, IntIndex(i)).val
  /\ ret.arg.root = root
  /\ ret.arg.hashFn = hashFn

\* C12: for a tree built with an injective hash and a valid index i,
\* verifyProof(h, getProof(i), root) returns false for every leaf hash h other
\* than getLeaf(i), the hashes of the other leaves included.
C12_WrongLeafRejected ==
  \A i \in ValidIndexes :
    (/\ hashFn \in InjectiveKinds
     /\ VerifiedProofOf(i)
     /\ ret.arg.leafHash # _leaves[i + 1]) => (~ret.threw /\ ret.val = FALSE)

\* the hash of leaf 1 was offered with the proof of leaf 2 of three leaves
C12_Witness ==
  /\ hashFn = "custom"
  /\ leafCount = 3
  /\ VerifiedProofOf(2)
  /\ ret.arg.leafHash = _leaves[2]
  /\ _leaves[2] # _leaves[3]
  /\ ret.val = FALSE

\* the proof a differs from the proof b in the sibling of exactly one step,
\* which has the length of the original
OneSiblingAltered(a, b) ==
  /\ Len(a) = Len(b)
  /\ \E k \in 1..Len(b) :
       /\ a[k].position = b[k].position
       /\ a[k].sibling # b[k].sibling
       /\ Len(a[k].sibling) = Len(b[k].sibling)
       /\ \A j \in 1..Len(b) : j # k => a[j] = b[j]

\* C13: for a tree built with an injective hash and a valid index i,
\* verifyProof(getLeaf(i), p, root) returns false for every p that is
\* getProof(i) with the sibling of one step replaced by a different byte
\* string of the same length.
C13_AlteredSiblingRejected ==
  \A i \in ValidIndexes :
    (/\ Built
     /\ hashFn \in InjectiveKinds
     /\ ret.op = "verifyProof"
     /\ ret.arg.leafHash = _leaves[i + 1]
     /\ ret.arg.root = root
     /\ ret.arg.hashFn = hashFn
     /\ OneSiblingAltered(ret.arg.proof, getProof(_leaves, _tree, IntIndex(i)).val))
      => (~ret.threw /\ ret.val = FALSE)

\* the last byte of the sibling of the second step of a three-step proof was
\* changed
C13_Witness ==
  /\ Built
  /\ hashFn = "custom"
  /\ leafCount = 5
  /\ ret.op = "verifyProof"
  /\ ret.arg.leafHash = _leaves[1]
  /\ ret.arg.root = root
  /\ Len(ret.arg.proof) = 3
  /\ ret.arg.proof[1] = ProofLoop(_tree, 0, 0)[1]
  /\ ret.arg.proof[3] = ProofLoop(_tree, 0, 0)[3]
  /\ ret.arg.proof[2].sibling
       = FlipByte(_tree[2][2], Len(_tree[2][2]))
  /\ ret.val = FALSE

\* the constructor was given leaves and threw: the hash function failed
HashFailed == status = "failed" /\ ret.op = "new" /\ input # <<>>

\* the 0-based index of the first leaf the throwing hash function refuses
FirstFailingLeaf ==
  (CHOOSE k \in FailingLeaves("limited", input) :
     \A m \in FailingLeaves("limited", input) : k <= m) - 1

\* C14: when the injected hash function throws during construction, at a
\* leaf or at an internal pair of any level, the constructor throws a
\* MerkleTreeError and there is no tree; a failure at a leaf names the index
\* of the first failing leaf.
C14_HashFailureTagged ==
  HashFailed =>
    /\ ret.threw
    /\ ret.error = "MerkleTreeError"
    /\ _leaves = <<>>
    /\ _tree = <<>>
    /\ FailingLeaves("limited", input) # {} =>
         ret.msg = "Failed to hash leaf at index " \o ToString(FirstFailingLeaf)
                     \o ": unsupported length"

HexDigits ==
  {"0", "1", "2", "3", "4", "5", "6", "7", "8", "9",
   "a", "b", "c", "d", "e", "f", "A", "B", "C", "D", "E", "F"}

\* x is a string of one or more hexadecimal digits
NonEmptyHex(x) ==
  x.t = "string" /\ x.v # <<>> /\ \A k \in 1..Len(x.v) : x.v[k] \in HexDigits

BadEntries(arr) == \E k \in 1..Len(arr.v) : ~NonEmptyHex(arr.v[k])

LevelViolation(level) ==
  IF level.t # "array" THEN "tree levels must be arrays"
  ELSE IF BadEntries(level) THEN "tree hashes must be hex strings"
  ELSE ""

\* the violation the claim says is reported for the object d, "" for none
ClaimedViolation(d) ==
  IF d.leaves.t # "array" THEN "leaves must be an array"
  ELSE IF d.tree.t # "array" THEN "tree must be an array"
  ELSE IF BadEntries(d.leaves) THEN "leaves must be hex strings"
  ELSE IF \E l \in 1..Len(d.tree.v) : LevelViolation(d.tree.v[l]) # ""
       THEN LevelViolation(d.tree.v[
              CHOOSE l \in 1..Len(d.tree.v) :
                /\ LevelViolation(d.tree.v[l]) # ""
                /\ \A m \in 1..(l - 1) : LevelViolation(d.tree.v[m]) = ""])
       ELSE ""

\* C15: validateSerializedTree, and with it fromJSON, rejects an object whose
\* leaves is not an array, whose tree is not an array, whose leaves hold an
\* entry that is not a non-empty hex string, whose tree holds a level that is
\* not an array or a level with an entry that is not a non-empty hex string,
\* with an error naming the first violation in that order (levels in order,
\* a level's array check before its entries); an object with none of them,
\* also with empty leaves or empty levels, is accepted.
C15_ValidationOrder ==
  (ret.op \in {"validateSerializedTree", "fromJSON"} /\ args.json.t = "object") =>
    LET v == ClaimedViolation(args.json)
    IN /\ v # "" => ret.threw
       /\ (v # "" /\ ret.op = "validateSerializedTree") =>
            ret.msg = "Invalid tree data: " \o v
       /\ (v # "" /\ ret.op = "fromJSON") =>
            /\ ret.error = "MerkleTreeError"
            /\ ret.msg = "Failed to deserialize tree: Invalid tree data: " \o v
       /\ (v = "" /\ ret.op = "validateSerializedTree") => ~ret.threw

\* a bad hash in the first level is reported though the second level is not
\* an array
C15_WitnessLevelOrder ==
  /\ ret.op = "fromJSON"
  /\ args.json.t = "object"
  /\ args.json.leaves = JArr(<<>>)
  /\ args.json.tree.t = "array"
  /\ Len(args.json.tree.v) = 2
  /\ args.json.tree.v[1] = JArr(<<JStr(<<"0", "g">>)>>)
  /\ args.json.tree.v[2].t = "string"
  /\ ret.msg = "Failed to deserialize tree: Invalid tree data: tree hashes must be hex strings"

\* empty leaves and an empty level pass the validation
C15_WitnessAccepted ==
  /\ ret.op = "validateSerializedTree"
  /\ args.json = JObj(JArr(<<>>), JArr(<<JArr(<<>>)>>))
  /\ ~ret.threw

\* a hexadecimal digit in lower case
LowerCase(c) ==
  IF c = "A" THEN "a" ELSE IF c = "B" THEN "b" ELSE IF c = "C" THEN "c"
  ELSE IF c = "D" THEN "d" ELSE IF c = "E" THEN "e" ELSE IF c = "F" THEN "f"
  ELSE c

LowerCased(arr) ==
  JArr([k \in 1..Len(arr.v) |-> JStr([j \in 1..Len(arr.v[k].v) |-> LowerCase(arr.v[k].v[j])])])

\* the document with every hex string in lower case
LowerCasedDoc(d) ==
  JObj(LowerCased(d.leaves), JArr([l \in 1..Len(d.tree.v) |-> LowerCased(d.tree.v[l])]))

\* the text passes the structural validation and the hash function accepts
\* the placeholder leaf
ValidText ==
  /\ args.json.t = "object"
  /\ ClaimedViolation(args.json) = ""
  /\ args.hashFn \in TotalHashKinds

\* C16: fromJSON checks no hashes: for every text that passes the structural
\* validation it returns a tree with as many leaves and levels as the text
\* has, holding the byte strings the hex strings denote in the given order,
\* so that toJSON of the result is the text with its hex in lower case,
\* whether or not the levels are the hashes of the levels below.
C16_TrustsStructure ==
  /\ (ret.op = "fromJSON" /\ ValidText) =>
       /\ ~ret.threw
       /\ Len(_leaves) = Len(args.json.leaves.v)
       /\ Len(_tree) = Len(args.json.tree.v)
       /\ \A l \in 1..Len(_tree) : Len(_tree[l]) = Len(args.json.tree.v[l].v)
  /\ (ret.op = "toJSON" /\ ValidText) => ret.val = LowerCasedDoc(args.json)

\* the leaves as they were given to the constructor
Given == IF "given" \in DOMAIN args THEN args.given ELSE input

\* the tree as the constructor left it
AsBuilt == HashAndBuild(hashFn, Given)

\* C17: whatever the caller does with the arrays and buffers that the tree
\* getter, root, getLeaf, getLeaves, getProof and toJSON hand back, root,
\* getLeaves(), getProof(i) and toJSON() keep returning what they returned
\* right after construction.
C17_ReadOnly ==
  Built =>
    /\ root = rootOf(AsBuilt._tree)
    /\ _leaves = AsBuilt._leaves
    /\ ret.op = "toJSON" => ret.val = toJSON(AsBuilt._leaves, AsBuilt._tree)
    /\ (ret.op = "getProof" /\ ~ret.threw) =>
         ret.val = ProofLoop(AsBuilt._tree, 0, ret.arg.num)

\* the hash function that the options of the second construction select
SecondHash == SelectHash(ret.arg)

\* the data hashed for the parents of a level, from the left
PairInputs(level) ==
  [j \in 1..((Len(level) + 1) \div 2) |->
     level[2 * j - 1]
       \o (IF 2 * j <= Len(level) THEN level[2 * j] ELSE level[2 * j - 1])]

\* tree is the one tree that a leaf list and a hash function fix: level 0
\* holds the hashes of the leaves, every further level the hashes of the
\* pairs of the level below, and only the last level has a single node
IsTreeOf(tree, leaves, hk) ==
  /\ Len(tree) >= 1
  /\ tree[1] = [k \in 1..Len(leaves) |-> Hash(hk, leaves[k])]
  /\ \A l \in 1..(Len(tree) - 1) :
       /\ Len(tree[l]) > 1
       /\ tree[l + 1] = [j \in 1..Len(PairInputs(tree[l])) |->
                          Hash(hk, PairInputs(tree[l])[j])]
  /\ Len(tree[Len(tree)]) = 1

\* the proof of leaf i that the levels of this tree fix
ExpectedProof(i) == [k \in 1..(depth - 1) |-> ExpectedStep(i, k - 1)]

\* C18: two trees built from equal leaf lists with the same hash function
\* have equal leaf hashes, levels, roots and proofs for every index, and
\* equal inputs within one list get equal leaf hashes: the tree of each
\* construction is the one tree that the leaf list and the hash function
\* fix, whatever options selected the function, its leaf hashes are level
\* 0 of it, and its proofs are the ones its levels fix.
C18_Deterministic ==
  /\ Built =>
       /\ IsTreeOf(_tree, input, hashFn)
       /\ _leaves = _tree[1]
       /\ \A j, k \in 1..Len(input) :
            input[j] = input[k] => _leaves[j] = _leaves[k]
       /\ \A i \in ValidIndexes : ProofLoop(_tree, 0, i) = ExpectedProof(i)
  /\ (Built /\ ret.op = "rebuild" /\ SecondHash = hashFn) =>
       /\ ~ret.threw
       /\ IsTreeOf(ret.val._tree, input, SecondHash)
       /\ ret.val._leaves = ret.val._tree[1]
       /\ ret.val._leaves = _leaves
       /\ ret.val._tree = _tree
       /\ rootOf(ret.val._tree) = root
       /\ \A i \in ValidIndexes :
            /\ ProofLoop(ret.val._tree, 0, i) = ProofLoop(_tree, 0, i)
            /\ ProofLoop(ret.val._tree, 0, i) = ExpectedProof(i)

\* a list with a repeated and a different leaf was built by default and again
\* with hashAlgorithm "sha256"
C18_Witness ==
  /\ Built
  /\ ret.op = "rebuild"
  /\ ret.arg = [hashFunction |-> "undefined", hashAlgorithm |-> "sha256"]
  /\ hashFn = "sha256"
  /\ leafCount = 3
  /\ input[1] = input[3]
  /\ input[1] # input[2]
  /\ _leaves[1] = _leaves[3]
  /\ _leaves[1] # _leaves[2]
  /\ ret.val._tree = _tree

\* C19: getProof is a pure function of the tree: after a call, successful or
\* failing, the leaves and the levels are what they were, and a second call
\* with the same index, with other reads in between, returns a proof equal
\* to the first.
C19_GetProofPure ==
  /\ ret.op = "getProof" => (_leaves = AsBuilt._leaves /\ _tree = AsBuilt._tree)
  /\ (args # <<>> /\ ret.op = "getProof") =>
       (~ret.threw /\ ret.arg = args.index /\ ret.val = args.proof)

\* the three-step proof of leaf 4 of five was returned a second time, after
\* a verifyProof call
C19_Witness ==
  /\ Built
  /\ leafCount = 5
  /\ args # <<>>
  /\ args.then = "verifyProof"
  /\ args.index = [num |-> 4, den |-> 1]
  /\ ret.op = "getProof"
  /\ Len(ret.val) = 3
  /\ ret.val = args.proof

\* a refused call left the tree as it was
C19_WitnessFailing ==
  /\ Built
  /\ leafCount = 2
  /\ ret.op = "getProof"
  /\ ret.threw
  /\ _tree = AsBuilt._tree

\* a tree of exactly one leaf
SingleLeaf == Built /\ Len(input) = 1

\* C20: a tree built from one leaf has leafCount 1 and depth 1, its root is
\* the hash of the leaf, the value getLeaf(0) returns, and no pair was
\* hashed; getProof(0) is the empty proof and verifyProof(getLeaf(0), [],
\* root) returns true.
C20_SingleLeaf ==
  SingleLeaf =>
    /\ leafCount = 1
    /\ depth = 1
    /\ root = Hash(hashFn, input[1])
    /\ root = _leaves[1]
    /\ hashCalls = 1
    /\ (ret.op = "getLeaf" /\ ~ret.threw) => ret.val = root
    /\ (ret.op = "getProof" /\ ~ret.threw) => ret.val = <<>>
    /\ VerifiedOwnProof(0) => (ret.arg.proof = <<>> /\ ~ret.threw /\ ret.val = TRUE)

\* the empty proof of the only leaf was verified
C20_Witness ==
  /\ SingleLeaf
  /\ input[1] # <<>>
  /\ hashFn = "sha256"
  /\ ret.op = "verifyProof"
  /\ ret.arg.leafHash = root
  /\ ret.arg.proof = <<>>
  /\ ret.val = TRUE

(***************************************************************************)
(* C21: whenever the constructor is given a hash function that is not a    *)
(* function, in the place of the options as in the README's signature and  *)
(* in the test "should throw on invalid hash function", or as              *)
(* options.hashFunction, the call fails with a MerkleTreeError and no tree *)
(* is built with another hash function.                                    *)
(***************************************************************************)
NonFunctionGiven(second) ==
  \/ second.t = "string"
  \/ second.t = "object" /\ second.hashFunction \in NonFunctions

C21_NonFunctionRejected ==
  (ret.op = "new" /\ NonFunctionGiven(args))
    => (ret.threw /\ ret.error = "MerkleTreeError" /\ status = "failed")

(***************************************************************************)
(* C22: the constructor of index.ts honours options.sortPairs.  Every      *)
(* parent is the hash of its two children, sorted into byte order first    *)
(* when sortPairs is true and left before right otherwise; and with        *)
(* sortPairs true, swapping the two leaves of a sibling pair leaves the    *)
(* root as it is.  Stated for the hash functions whose values the model    *)
(* computes byte for byte.                                                 *)
(***************************************************************************)
\* the hash functions whose values the model computes byte for byte
ExactKinds == {"none", "custom", "limited"}

\* the leaf list with the leaves at positions k and k + 1 exchanged
SwapPair(leaves, k) ==
  [j \in 1..Len(leaves) |->
     IF j = k THEN leaves[k + 1] ELSE IF j = k + 1 THEN leaves[k] ELSE leaves[j]]

ParentAsOption(l, j) ==
  LET left == _tree[l][2 * j - 1]
      right == IF 2 * j <= Len(_tree[l]) THEN _tree[l][2 * j] ELSE left
      pair == IF args.sortPairs = "true" THEN SortPair(hashFn, left, right)
              ELSE <<left, right>>
  IN Hash(hashFn, pair[1] \o pair[2])

C22_SortPairsHonoured ==
  (ret.op = "new" /\ Built /\ hashFn \in ExactKinds) =>
    /\ \A l \in 1..(depth - 1) : \A j \in 1..Len(_tree[l + 1]) :
         _tree[l + 1][j] = ParentAsOption(l, j)
    /\ args.sortPairs = "true" =>
         \A k \in {j \in 1..(Len(input) - 1) : j % 2 = 1} :
           rootOf(New(SwapPair(input, k), Options(args))._tree) = root

(***************************************************************************)
(* C23: a tree of core/MerkleTree.ts built with sortPairs = true accepts   *)
(* its own proofs: verifyProof(getLeaf(i), getProof(i), root) returns true *)
(* for every valid index i.                                                *)
(***************************************************************************)
C23_SortedProofVerifies ==
  (ret.op = "verifyProof" /\ sortPairs) => (~ret.threw /\ ret.val = TRUE)

(***************************************************************************)
(* C24: sort-pairs mode leaves self-pairs alone.  In a tree of             *)
(* core/MerkleTree.ts built with sortPairs = true, the parent of a node    *)
(* paired with itself has the hash of that node's hash followed by itself, *)
(* which is what createParentNode gives for the node with sortPairs true   *)
(* and with sortPairs false; and when every pair of two different nodes,   *)
(* on every level, already has its left hash before its right hash in      *)
(* byte order, the root is the root of the tree built from the same data   *)
(* without sortPairs, which is the root index arithmetic gives.            *)
(***************************************************************************)
\* the parents of two different nodes, and those of a node paired with itself
RealPairs ==
  {p \in 1..Len(nodes) : nodes[p].left # 0 /\ nodes[p].left # nodes[p].right}

SelfPairs ==
  {p \in 1..Len(nodes) : nodes[p].left # 0 /\ nodes[p].left = nodes[p].right}

LeftHash(p) == nodes[nodes[p].left].hash

RightHash(p) == nodes[nodes[p].right].hash

AllPairsSorted ==
  \A p \in RealPairs : compare(hashFn, LeftHash(p), RightHash(p)) <= 0

\* the hash of a node's hash followed by itself
SelfPairHash(p) == Hash(hashFn, LeftHash(p) \o LeftHash(p))

\* the hash of the node createParentNode makes from the nodes l and r
ParentHash(l, r, sp) ==
  LET made == createParentNode(nodes, l, r, hashFn, sp)
  IN made.heap[made.val].hash

WithoutSortPairs == core_New(input, [args EXCEPT !.sortPairs = "false"])

\* the tree index.ts builds from the data and hash function of this tree
ByIndexArithmetic == HashAndBuild(hashFn, input)

C24_SelfPairsUnaffected ==
  (Built /\ sortPairs) =>
    /\ \A p \in SelfPairs :
         /\ nodes[p].hash = SelfPairHash(p)
         /\ ParentHash(nodes[p].left, nodes[p].left, TRUE) = SelfPairHash(p)
         /\ ParentHash(nodes[p].left, nodes[p].left, FALSE) = SelfPairHash(p)
    /\ AllPairsSorted =>
         /\ ~WithoutSortPairs.threw
         /\ core_root(nodes, _tree)
              = core_root(WithoutSortPairs.nodes, WithoutSortPairs.tree)
         /\ core_root(nodes, _tree) = rootOf(ByIndexArithmetic._tree)

\* a tree over SHA-256 with a self-pair and with a pair of two different
\* digests that is in sorted order, like every other pair
C24_Witness ==
  /\ Built
  /\ sortPairs
  /\ hashFn = "sha256"
  /\ SelfPairs # {}
  /\ AllPairsSorted
  /\ \E p \in RealPairs : compare(hashFn, LeftHash(p), RightHash(p)) < 0

(***************************************************************************)
(* C26: without sortPairs the tree of core/MerkleTree.ts (parent pointers) *)
(* and the tree of index.ts (index arithmetic) agree.  Built from the same *)
(* data with the same hash function they hold the same leaf hashes, the    *)
(* same levels and the same root, and for every valid index getProof       *)
(* returns the same steps: same number, same sibling hashes, same          *)
(* positions, the step of a self-paired last node included.                *)
(***************************************************************************)
\* the node of the path of leaf `index` on level l (0-based) is the last
\* node of a level of odd length
OnOddEnd(index) ==
  \E l \in 0..(Len(_tree) - 2) :
    LET idx == index \div (2 ^ l)
    IN idx = Len(_tree[l + 1]) - 1 /\ idx % 2 = 0

C26_SameAsIndexArithmetic ==
  (Built /\ ~sortPairs) =>
    LET t == ByIndexArithmetic
    IN /\ ~t.threw
       /\ core_levels(nodes, _tree) = t._tree
       /\ core_levels(nodes, <<_leaves>>)[1] = t._leaves
       /\ core_root(nodes, _tree) = rootOf(t._tree)
       /\ (ret.op = "getProof" /\ ~ret.threw) =>
            ret.val = ProofLoop(t._tree, 0, ret.arg)

\* the proof of a leaf whose path runs through a self-paired node and,
\* higher up, through a left sibling
C26_Witness ==
  /\ Built
  /\ ~sortPairs
  /\ ret.op = "getProof"
  /\ ~ret.threw
  /\ OnOddEnd(ret.arg)
  /\ \E k \in 1..Len(ret.val) : ret.val[k].position = "left"

(***************************************************************************)
(* C25: the constructor of index.ts calls the hash function once for every *)
(* leaf and once for every node above level 0, leaves first and then level *)
(* by level from the left: leafCount plus the sizes of the upper levels    *)
(* in all when the tree is built, and when a call throws, the calls that   *)
(* come before it in that order plus the failing one.  A tree of one leaf  *)
(* takes exactly one call.                                                 *)
(***************************************************************************)
\* the sum of the lengths of the levels l..depth
RECURSIVE SizesFrom(_)
SizesFrom(l) == IF l > depth THEN 0 ELSE Len(_tree[l]) + SizesFrom(l + 1)

Least(S) == CHOOSE k \in S : \A m \in S : k <= m

\* the calls made above a level, bottom-up and from the left, until one
\* throws or a level of one node is reached
RECURSIVE CallsAbove(_, _)
CallsAbove(hk, level) ==
  IF Len(level) <= 1 THEN 0
  ELSE LET ins == PairInputs(level)
           bad == {j \in 1..Len(ins) : CallHash(hk, ins[j]).threw}
       IN IF bad # {} THEN Least(bad)
          ELSE Len(ins) + CallsAbove(hk, [j \in 1..Len(ins) |-> Hash(hk, ins[j])])

ExpectedCalls(hk, leaves) ==
  IF FailingLeaves(hk, leaves) # {} THEN Least(FailingLeaves(hk, leaves))
  ELSE Len(leaves) + CallsAbove(hk, [k \in 1..Len(leaves) |-> Hash(hk, leaves[k])])

C25_HashCalls ==
  /\ JustBuilt =>
       /\ hashCalls = leafCount + SizesFrom(2)
       /\ hashCalls = ExpectedCalls(hashFn, input)
       /\ Len(input) = 1 => (hashCalls = 1 /\ depth = 1)
  /\ HashFailed => hashCalls = ExpectedCalls("limited", input)

\* a tree of three levels above the leaves, two of them of odd length
C25_Witness ==
  /\ JustBuilt
  /\ leafCount = 5
  /\ depth = 4
  /\ hashCalls = 11

\* the first pair of level 1 could not be hashed: the second was not tried
C25_WitnessAborted ==
  /\ HashFailed
  /\ Len(input) = 5
  /\ hashCalls = 9

(***************************************************************************)
(* C27: path invariant.  In a built tree, for every valid index i and      *)
(* every k in 0..depth-1, folding the first k steps of getProof(i) from    *)
(* getLeaf(i) gives the node floor(i / 2^k) of level k (stated for the     *)
(* tree as the constructor leaves it); and verifyProof of that node with   *)
(* the proof without its first k steps returns true.                       *)
(***************************************************************************)
PathNode(i, k) == _tree[k + 1][(i \div (2 ^ k)) + 1]

C27_PathInvariant ==
  Built =>
    /\ ret.op = "new" =>
         \A i \in 0..(leafCount - 1) : \A k \in 0..(depth - 1) :
           FoldTo(hashFn, getLeaf(_leaves, IntIndex(i)).val,
                  getProof(_leaves, _tree, IntIndex(i)).val, k) = PathNode(i, k)
    /\ (ret.op = "verifyProof" /\ args.call = "suffix") =>
         /\ ret.arg.leafHash = PathNode(args.index, args.step)
         /\ Len(ret.arg.proof) = depth - 1 - args.step
         /\ ~ret.threw
         /\ ret.val = TRUE

\* an internal node above a self-paired node was accepted with the one step
\* that is left of a three-step proof
C27_Witness ==
  /\ Built
  /\ leafCount = 5
  /\ ret.op = "verifyProof"
  /\ args.call = "suffix"
  /\ args.index = 4
  /\ args.step = 2
  /\ ret.arg.leafHash # _leaves[5]
  /\ ret.arg.proof[1].position = "left"
  /\ ret.arg.proof[1].sibling # ret.arg.leafHash
  /\ ret.val = TRUE

(***************************************************************************)
(* C29 as claimed: in a tree built with a collision-free hash, flipping    *)
(* the position of one step of getProof(i) still verifies when the sibling *)
(* of the step equals the running hash, and returns false when it differs. *)
(***************************************************************************)
\* the running hash before the flipped step, and the step's sibling
RunningHash ==
  FoldTo(hashFn, _leaves[args.index + 1], ProofLoop(_tree, 0, args.index),
         args.step - 1)

FlippedSibling == ProofLoop(_tree, 0, args.index)[args.step].sibling

Flipped == Built /\ ret.op = "verifyProof" /\ args.call = "flip"

C29_FlipAsClaimed ==
  (Flipped /\ hashFn \in InjectiveKinds) =>
    /\ ~ret.threw
    /\ ret.val = (FlippedSibling = RunningHash)

(***************************************************************************)
(* C29, amended: a step whose sibling equals the running hash gives the    *)
(* same value for "left" and for "right", with any hash function, so the   *)
(* flipped proof still verifies; under a collision-free hash the flipped   *)
(* proof is rejected exactly when sibling ++ running differs from          *)
(* running ++ sibling.                                                     *)
(***************************************************************************)
Commute(a, b) == a \o b = b \o a

C29_FlipCommuting ==
  Flipped =>
    /\ FlippedSibling = RunningHash =>
         /\ ReduceStep(hashFn, RunningHash, [sibling |-> FlippedSibling, position |-> "left"])
              = ReduceStep(hashFn, RunningHash, [sibling |-> FlippedSibling, position |-> "right"])
         /\ ~ret.threw
         /\ ret.val = TRUE
    /\ hashFn \in InjectiveKinds =>
         /\ ~ret.threw
         /\ ret.val = Commute(FlippedSibling, RunningHash)

\* a flipped step of two different hashes that do not commute was rejected,
\* in a proof that also has a self-pair step
C29_Witness ==
  /\ Flipped
  /\ hashFn \in InjectiveKinds
  /\ FlippedSibling # RunningHash
  /\ ~Commute(FlippedSibling, RunningHash)
  /\ ret.val = FALSE
  /\ \E k \in 1..(depth - 1) :
       ProofLoop(_tree, 0, args.index)[k].sibling
         = FoldTo(hashFn, _leaves[args.index + 1], ProofLoop(_tree, 0, args.index), k - 1)

\* the flipped step was a self-pair step and the proof was accepted
C29_WitnessSelfPair ==
  /\ Flipped
  /\ FlippedSibling = RunningHash
  /\ leafCount = 3
  /\ args.index = 2
  /\ ret.val = TRUE

(***************************************************************************)
(* C28: for a leaf list x1..xn with n odd and n >= 3, the tree built from  *)
(* x1..xn,xn has the depth, the levels above level 0 and the root of the   *)
(* tree built from x1..xn, and its proof of index n verifies against the   *)
(* root of the shorter tree.                                               *)
(***************************************************************************)
C28_LastLeafRepeated ==
  (Built /\ ret.op = "extend" /\ Len(input) % 2 = 1 /\ Len(input) >= 3) =>
    /\ ~ret.threw
    /\ Len(ret.val._leaves) = leafCount + 1
    /\ Len(ret.val._tree) = depth
    /\ \A l \in 2..depth : ret.val._tree[l] = _tree[l]
    /\ rootOf(ret.val._tree) = root
    /\ ~ret.val.verified.threw
    /\ ret.val.verified.val = TRUE

\* three different leaf hashes: the fourth leaf of the longer tree takes the
\* place of the self-pair of the third
C28_Witness ==
  /\ Built
  /\ ret.op = "extend"
  /\ leafCount = 3
  /\ _leaves[1] # _leaves[2]
  /\ _leaves[3] # _tree[2][2]
  /\ Len(ret.val._tree[1]) = 4
  /\ ret.val.verified.arg.proof[1] = [sibling |-> _leaves[3], position |-> "left"]
  /\ ret.val.verified.val = TRUE

(***************************************************************************)
(* C30: every instance, from the constructor or from fromJSON on a text it *)
(* accepts, has at least one leaf and one level, a top level of exactly    *)
(* one hash and as many leaves as level 0 has entries; its root is a hash, *)
(* never undefined and never a thrown error.                               *)
(***************************************************************************)
C30_InstanceWellFormed ==
  Built =>
    /\ leafCount >= 1
    /\ depth >= 1
    /\ Len(_tree[depth]) = 1
    /\ leafCount = Len(_tree[1])
    /\ ret.op = "root" => (~ret.threw /\ ret.val # Undefined /\ IsBuffer(ret.val))

Next ==
  \/ Construct
  \/ \E index \in IndexSet : GetProof(index)
  \/ \E index \in IndexSet : GetLeaf(index)
  \/ \E i \in 0..(MaxLeaves - 1) : VerifyProof(i)
  \/ ToJSON
  \/ FromJSON

Spec == Init /\ [][Next]_vars

NextVerify == ApplyVerifyProof

SpecVerify == InitVerify /\ [][NextVerify]_vars

NextTamper ==
  \/ Construct
  \/ VerifyWrongLeaf
  \/ VerifyAltered

SpecTamper == Init /\ [][NextTamper]_vars

NextJSON ==
  \/ Validate
  \/ Deserialize
  \/ ToJSON
  \/ GetRoot

SpecJSON == InitJSON /\ [][NextJSON]_vars

NextExposed ==
  \/ Construct
  \/ ConstructBuffers
  \/ WriteBuffer
  \/ TreePop
  \/ ToJSONAfterWrite
  \/ GetProofAfterWrite

SpecExposed == Init /\ [][NextExposed]_vars

NextTwice ==
  \/ Construct
  \/ BuildAgain
  \/ BuildLastRepeated

SpecTwice == Init /\ [][NextTwice]_vars

NextReads ==
  \/ Construct
  \/ GetProofFirst
  \/ RememberProof
  \/ ReadBetween
  \/ GetProofAgain

SpecReads == Init /\ [][NextReads]_vars

NextPath == Construct \/ VerifySuffix \/ VerifyFlipped

SpecPath == Init /\ [][NextPath]_vars

NextCore == CoreConstruct \/ CoreGetProof \/ CoreVerifyProof

SpecCore == Init /\ [][NextCore]_vars

NextOptions == ConstructWith

SpecOptions == Init /\ [][NextOptions]_vars

SpecMalformed == InitMalformed /\ [][NextVerify]_vars
====
